---- MODULE Spec2Model ----
(***************************************************************************)
(* Action-code protocol (actioncodesorg/protocol-v2): the protocol facade, *)
(* the wallet and delegation strategies, the canonical serializers and the *)
(* Solana (Ed25519) adapter, as a state machine over a clock.              *)
(*                                                                         *)
(* Time is counted in ticks of Date.now(); MaxFuture is the one-year bound *)
(* of validateDelegationProof, scaled to ticks.  An Ed25519 signature is   *)
(* ideal: it verifies for exactly the key and the bytes it was made with.  *)
(* A JSON message is the sequence of its keys and values, in encoding      *)
(* order, numbers in decimal.  A protocol meta string is the sequence of   *)
(* its scheme, keys and url-encoded values.                                *)
(*                                                                         *)
(* Spec is the protocol with its strategies and adapter predicates;        *)
(* SpecLife the protocol object with its adapter registry, revoke and a    *)
(* longer clock; SpecCode the wallet strategy's generateCode under every   *)
(* code length; SpecMeta buildProtocolMeta and parseProtocolMeta; SpecTx   *)
(* the adapter's operations on a transaction; SpecRevoke revoke and the    *)
(* adapter's revoke predicates; SpecCanon the canonical serializers on     *)
(* their own; SpecTamper validation of generated codes with changed        *)
(* fields; SpecRegistry two protocol objects whose adapters are registered *)
(* while generate or revoke awaits signFn.                                 *)
(***************************************************************************)
EXTENDS Integers, Sequences, FiniteSets, TLC

VARIABLES
    now,       \* Date.now()
    cfg,       \* the CodeGenerationConfig of the protocol object
    pending,   \* the generate or revoke call waiting for signFn, or NoCall
    issued,    \* the action code the caller holds, or NoCode
    call,      \* the call just made, with its input and outcome, or NoCall
    adapters,  \* ActionCodesProtocol.adapters: chain name -> adapter
    signed,    \* the messages the call in progress has handed to signFn
    rejected,  \* a call the caller remembers (a validate that raised EXPIRED_CODE;
               \* in SpecRegistry a generate or revoke with its value), or NoCall
    txn,       \* the transaction the client holds (in SpecMeta: the meta built; in
               \* SpecCanon: the bytes kept), or NoTx
    revoked,   \* the revoke record the caller holds, or NoCode
    peer       \* the adapters of a second protocol object of the same process

vars == <<now, cfg, pending, issued, call, adapters, signed, rejected, txn, revoked, peer>>

----------------------------------------------------------------------------
(* Bounds of the model *)

MaxTime == 3
MaxLifeTime == 4

(* Program constants *)

MaxFuture == 2
CODE_MIN_LENGTH == 6
CODE_MAX_LENGTH == 24
DefaultCodeLength == 8
SigBytes == 64
PubkeyBytes == 32

ADAPTER_CHAIN_NAME == "solana"
SUPPORTED_CHAINS == {"solana"}
CANONICAL_MESSAGE_VERSION == 1
CANONICAL_MESSAGE_PREFIX == "actioncodes"
CANONICAL_REVOKE_MESSAGE_PREFIX == "actioncodes-revoke"

----------------------------------------------------------------------------
(* Values *)

Undefined == [kind |-> "undefined"]
NoSkew == 0 - 1
NoLength == 0 - 1

Wallets == {"W1"}
Delegates == {"D1", "D2"}
\* base58 strings that decode to a 32-byte key
Keys == Wallets \cup Delegates
\* "" is the empty string, "notakey" a string new PublicKey() refuses
PubkeyStrings == Keys \cup {"", "notakey"}
ChainStrings == {"solana", "other", ""}

\* Decoded length of a base58 pubkey string; 0 stands for "bs58.decode throws"
Base58Len(s) == IF s \in Keys THEN PubkeyBytes ELSE IF s = "" THEN 0 ELSE 7

\* new PublicKey(s) succeeds
IsPublicKey(s) == s \in Keys

\* an optional string field that is not set
Unset == "(undefined)"

\* values that are no strings, given where a string is expected: undefined and
\* a number
NumberValue == "(number)"
NotStrings == {Unset, NumberValue}

\* typeof v === "string"
IsString(v) == v \notin NotStrings

\* the strings of the model with a double quote, a backslash, a C0 control
\* character (line feed), U+007F and a C1 control character (U+0085)
DelString == "W(U+007F)1"
C1String == "W(U+0085)1"
UnsafeStrings == {"W\"1", "W\\1", "W\n1", DelString, C1String}

\* /["\\\x00-\x1f\x7f-\x9f]/.test(s), for the strings of the model
HasUnsafeChar(s) == s \in UnsafeStrings

\* /^[a-z0-9-]+$/.test(s), for the chain strings of the model
IsChainName(s) == s \in {"solana", "other"}

(* Signatures as the strings a signer hands out *)
Ed(k, m) == [kind |-> "ed25519", signer |-> k, msg |-> m]
EmptySig == [kind |-> "empty", signer |-> "", msg |-> <<>>]
ShortSig == [kind |-> "short", signer |-> "", msg |-> <<>>]
NotBase58Sig == [kind |-> "notbase58", signer |-> "", msg |-> <<>>]

\* !s for a signature string
Falsy(s) == s.kind = "empty"
\* a mutant in which bs58.decode accepts every string
DecodeNeverThrows(s) == FALSE

\* bs58.decode(s) throws
DecodeThrows(s) == s.kind = "notbase58"
\* bs58.decode(s).length
DecodedLen(s) == IF s.kind = "ed25519" THEN SigBytes ELSE IF s.kind = "short" THEN 10 ELSE 0

\* nacl.sign.detached.verify(msg, sig, pub), sizes already right
NaclVerify(m, s, k) == s.kind = "ed25519" /\ s.signer = k /\ s.msg = m

(* Outcomes of a call *)
Ok == [kind |-> "ok", code |-> "", field |-> ""]
Err(c, f) == [kind |-> "error", code |-> c, field |-> f]
Thrown(n) == [kind |-> "throw", code |-> n, field |-> ""]
IsOk(o) == o.kind = "ok"

----------------------------------------------------------------------------
(* utils/canonical.ts *)

\* a mutant without the bound on the length
BadStringFieldAnyLength(s) == ~IsString(s) \/ s = "" \/ HasUnsafeChar(s)

\* the numbers NaN and Infinity, which are no times of the model's clock
NaN == 0 - 1000
Infinity == 1000

\* JSON.stringify of a number: decimal digits, null for NaN and Infinity
JsonNumber(n) == IF n \in {NaN, Infinity} THEN "null" ELSE ToString(n)

\* the guard of a serializer on one string field: the INVALID_INPUT conditions
BadStringField(s) == ~IsString(s) \/ s = "" \/ Len(s) > 100 \/ HasUnsafeChar(s)

serializeCanonicalThrows(parts) == BadStringField(parts.pubkey)

serializeCanonical(parts) ==
    << "id", CANONICAL_MESSAGE_PREFIX,
       "ver", ToString(CANONICAL_MESSAGE_VERSION),
       "pubkey", parts.pubkey,
       "windowStart", JsonNumber(parts.windowStart) >>

serializeCanonicalRevokeThrows(parts) ==
    BadStringField(parts.pubkey) \/ BadStringField(parts.codeHash)

\* a mutant that leaves the code hash out of the revoke message
serializeCanonicalRevokeNoHash(parts) ==
    << "id", CANONICAL_REVOKE_MESSAGE_PREFIX,
       "ver", ToString(CANONICAL_MESSAGE_VERSION),
       "pubkey", parts.pubkey,
       "windowStart", JsonNumber(parts.windowStart) >>

serializeCanonicalRevoke(parts) ==
    << "id", CANONICAL_REVOKE_MESSAGE_PREFIX,
       "ver", ToString(CANONICAL_MESSAGE_VERSION),
       "pubkey", parts.pubkey,
       "codeHash", parts.codeHash,
       "windowStart", JsonNumber(parts.windowStart) >>

getCanonicalMessageParts(pubkey, t) ==
    serializeCanonical([pubkey |-> pubkey, windowStart |-> t])

serializeDelegationProofThrows(proof) ==
    \/ BadStringField(proof.walletPubkey)
    \/ BadStringField(proof.delegatedPubkey)
    \/ BadStringField(proof.chain)

serializeDelegationProofNoExpiry(proof) ==
    << "walletPubkey", proof.walletPubkey,
       "delegatedPubkey", proof.delegatedPubkey,
       "chain", proof.chain >>

serializeDelegationProof(proof) ==
    << "walletPubkey", proof.walletPubkey,
       "delegatedPubkey", proof.delegatedPubkey,
       "expiresAt", JsonNumber(proof.expiresAt),
       "chain", proof.chain >>

\* the field the INVALID_INPUT error of a serializer names
serializeCanonicalRevokeField(parts) ==
    IF ~IsString(parts.pubkey) THEN "pubkey"
    ELSE IF ~IsString(parts.codeHash) THEN "codeHash"
    ELSE IF parts.pubkey = "" \/ Len(parts.pubkey) > 100 THEN "pubkey"
    ELSE IF parts.codeHash = "" \/ Len(parts.codeHash) > 100 THEN "codeHash"
    ELSE "input"

serializeDelegationProofField(proof) ==
    IF BadStringField(proof.walletPubkey) THEN "walletPubkey"
    ELSE IF BadStringField(proof.delegatedPubkey) THEN "delegatedPubkey"
    ELSE "chain"

\* the escapes JSON.stringify writes in a string, for the strings of the model
JsonEscape(v) ==
    CASE v = "W\"1" -> "W\\\"1"
      [] v = "W\\1" -> "W\\\\1"
      [] v = "W\n1" -> "W\\n1"
      [] OTHER -> v

NumberKeys == {"ver", "windowStart", "expiresAt"}

\* the members of a JSON object in their order, numbers bare and strings quoted
RECURSIVE JsonMembers(_)
JsonMembers(m) ==
    IF m = <<>> THEN ""
    ELSE "\"" \o m[1] \o "\":"
         \o (IF m[1] \in NumberKeys THEN m[2] ELSE "\"" \o JsonEscape(m[2]) \o "\"")
         \o (IF Len(m) > 2 THEN "," ELSE "")
         \o JsonMembers(Tail(Tail(m)))

\* new TextEncoder().encode(JSON.stringify(object)): the text of the message
JsonBytes(m) == "{" \o JsonMembers(m) \o "}"

----------------------------------------------------------------------------
(* utils/crypto.ts and strategy/WalletStrategy.ts *)

\* JSON.parse of a canonical message: the value written after a key
JsonField(m, key) == m[(CHOOSE i \in 1..Len(m) : i % 2 = 1 /\ m[i] = key) + 1]
ParseNumber(s) == CHOOSE n \in 0..(MaxTime + MaxFuture + 4) : ToString(n) = s

\* a number for each string of the model, standing for its bytes
StrNum(s) ==
    CASE s = "W1" -> 11 [] s = "D1" -> 23 [] s = "D2" -> 37 [] s = "notakey" -> 41
      [] s = "solana" -> 43 [] s = "other" -> 47 [] s = "" -> 0
      [] s = "id" -> 53 [] s = "ver" -> 59 [] s = "pubkey" -> 61
      [] s = "windowStart" -> 67 [] s = "codeHash" -> 71
      [] s = "actioncodes" -> 73 [] s = "actioncodes-revoke" -> 79
      [] s = "walletPubkey" -> 83 [] s = "delegatedPubkey" -> 89
      [] s = "expiresAt" -> 97 [] s = "chain" -> 101
      [] OTHER -> 103 + ParseNumber(s)

RECURSIVE BytesNum(_)
BytesNum(m) == IF m = <<>> THEN 7 ELSE (31 * BytesNum(Tail(m)) + StrNum(Head(m))) % 10007

SigNum(s) ==
    CASE s.kind = "ed25519" -> (131 * StrNum(s.signer) + BytesNum(s.msg)) % 10007
      [] s.kind = "short" -> 5
      [] OTHER -> 0

\* hmacSha256(signatureBytes, canonicalMessage): a deterministic digest
hmacSha256(s, m) == (8191 * SigNum(s) + 127 * BytesNum(m) + 12345) % 100000000

RECURSIVE Pow10(_)
Pow10(n) == IF n = 0 THEN 1 ELSE 10 * Pow10(n - 1)

\* digest reduced modulo 10^n, left-padded with zeros to n digits (the digest
\* of the model has at most 8 digits)
digitsFromDigest(d, n) ==
    [i \in 1..n |-> IF n - i > 8 THEN 0 ELSE (d \div Pow10(n - i)) % 10]

\* a mutant that takes the configured length as it is
ClampLengthNone(n) == n

ClampLength(n) ==
    IF n < CODE_MIN_LENGTH THEN CODE_MIN_LENGTH
    ELSE IF n > CODE_MAX_LENGTH THEN CODE_MAX_LENGTH ELSE n

\* the number of digits of a code under config c: codeLength, 8 when unset,
\* clamped to [CODE_MIN_LENGTH, CODE_MAX_LENGTH]
CodeLength(c) ==
    ClampLength(IF c.codeLength = NoLength THEN DefaultCodeLength ELSE c.codeLength)

\* /^[0-9]{n}$/.test(code)
IsCodeFormat(code, n) == Len(code) = n /\ \A i \in 1..Len(code) : code[i] \in 0..9

\* codeHash(code): a short hash string of the code's digits
RECURSIVE DigitSum(_)
DigitSum(c) == IF c = <<>> THEN 0 ELSE (Head(c) + 3 * DigitSum(Tail(c))) % 1009
codeHash(code) == "H" \o ToString(DigitSum(code))

ClockSkew(c) == IF c.clockSkewMs = NoSkew THEN 0 ELSE c.clockSkewMs

\* generateCode(canonicalMessage, chain, signature): [out, value]
generateCode(c, canonicalMessage, chain, signature) ==
    IF Falsy(signature) \/ DecodeThrows(signature)
    THEN [out |-> Err("INVALID_SIGNATURE", "signature"), value |-> Undefined]
    ELSE
      LET pubkey == JsonField(canonicalMessage, "pubkey")
          windowStart == ParseNumber(JsonField(canonicalMessage, "windowStart"))
          digest == hmacSha256(signature, canonicalMessage)
      IN [out |-> Ok,
          value |-> [code |-> digitsFromDigest(digest, CodeLength(c)),
                     pubkey |-> pubkey,
                     timestamp |-> windowStart,
                     expiresAt |-> windowStart + c.ttlMs,
                     chain |-> chain,
                     signature |-> signature,
                     delegationProof |-> Undefined]]

\* validateCode(actionCode): the outcome
validateCode(c, t, a) ==
    IF t > a.expiresAt + ClockSkew(c)
    THEN Err("EXPIRED_CODE", "expiresAt")
    ELSE IF ~IsCodeFormat(a.code, CodeLength(c))
    THEN Err("INVALID_CODE_FORMAT", "code")
    ELSE IF a.pubkey = "" \/ Falsy(a.signature) \/ a.chain = "" \/ a.timestamp = 0
    THEN Err("MISSING_REQUIRED_FIELD", "")
    ELSE Ok

----------------------------------------------------------------------------
(* strategy/DelegationStrategy.ts *)

\* a mutant that never finds a proof expired
DelegationExpiredNever(t, p) == FALSE

\* delegationProof.expiresAt < now
DelegationExpired(t, p) == p.expiresAt < t

\* validateDelegationProof(delegationProof) at time t: the outcome
validateDelegationProof(t, p) ==
    IF p = Undefined THEN Thrown("TypeError")
    ELSE IF p.walletPubkey = "" \/ ~IsPublicKey(p.walletPubkey)
    THEN Err("INVALID_INPUT", "walletPubkey")
    ELSE IF p.delegatedPubkey = "" \/ ~IsPublicKey(p.delegatedPubkey)
    THEN Err("INVALID_INPUT", "delegatedPubkey")
    ELSE IF p.chain = "" \/ Len(p.chain) > 50 \/ ~IsChainName(p.chain)
    THEN Err("INVALID_INPUT", "chain")
    ELSE IF p.expiresAt <= 0
    THEN Err("INVALID_INPUT", "expiresAt")
    ELSE IF p.expiresAt > t + MaxFuture
    THEN Err("INVALID_INPUT", "expiresAt")
    ELSE IF DelegationExpired(t, p)
    THEN Err("EXPIRED_CODE", "expiresAt")
    ELSE IF Falsy(p.signature)
    THEN Err("INVALID_INPUT", "signature")
    ELSE Ok

\* generateDelegatedCode(delegationProof, canonicalMessage, chain, signature): [out, value]
generateDelegatedCode(c, t, p, canonicalMessage, chain, signature) ==
    LET v == validateDelegationProof(t, p)
        r == generateCode(c, canonicalMessage, chain, signature)
    IN IF ~IsOk(v) THEN [out |-> v, value |-> Undefined]
       ELSE IF ~IsOk(r.out) THEN r
       ELSE [out |-> Ok, value |-> [r.value EXCEPT !.delegationProof = p]]

\* a mutant with the comparison of the expiry check turned round
ExpiredBefore(c, t, a) == t < a.expiresAt + ClockSkew(c)

\* the expiry check a mutant drops the skew from
ExpiredNoSkew(c, t, a) == t > a.expiresAt

\* currentTime > actionCode.expiresAt + (config.clockSkewMs ?? 0)
Expired(c, t, a) == t > a.expiresAt + ClockSkew(c)

\* a mutant that lets a code outlive its proof
OutlivesNever(a) == FALSE

\* actionCode.expiresAt > actionCode.delegationProof.expiresAt
Outlives(a) == a.expiresAt > a.delegationProof.expiresAt

\* a mutant that skips the binding of the code to the delegated signer
PubkeyMismatchNever(a) == FALSE

\* actionCode.pubkey !== actionCode.delegationProof.delegatedPubkey
PubkeyMismatch(a) == a.pubkey # a.delegationProof.delegatedPubkey

\* validateDelegatedCode(actionCode) at time t: [out, nverify]
validateDelegatedCode(c, t, a) ==
    LET p == a.delegationProof
        v == validateDelegationProof(t, p)
        canonicalMessage ==
            serializeCanonical([pubkey |-> p.delegatedPubkey, windowStart |-> a.timestamp])
    IN IF Expired(c, t, a)
       THEN [out |-> Err("EXPIRED_CODE", "expiresAt"), nverify |-> 0]
       ELSE IF ~IsOk(v)
       THEN [out |-> v, nverify |-> 0]
       ELSE IF PubkeyMismatch(a)
       THEN [out |-> Err("INVALID_INPUT", "delegatedPubkey"), nverify |-> 0]
       ELSE IF Outlives(a)
       THEN [out |-> Err("INVALID_INPUT", "expiresAt"), nverify |-> 0]
       ELSE IF Falsy(p.signature)
       THEN [out |-> Err("MISSING_REQUIRED_FIELD", "delegationProof.signature"), nverify |-> 0]
       ELSE IF DecodeThrows(a.signature)
       THEN [out |-> Err("INVALID_SIGNATURE", "signature"), nverify |-> 0]
       ELSE IF DecodedLen(a.signature) # SigBytes
       THEN [out |-> Thrown("Error"), nverify |-> 0]
       ELSE IF ~NaclVerify(canonicalMessage, a.signature, p.delegatedPubkey)
       THEN [out |-> Err("INVALID_SIGNATURE", "signature"), nverify |-> 1]
       ELSE [out |-> Ok, nverify |-> 1]

----------------------------------------------------------------------------
(* adapters/SolanaAdapter.ts: the four predicates, each [out, nverify] *)

Bool(b) == [kind |-> IF b THEN "true" ELSE "false", code |-> "", field |-> ""]
False(n) == [out |-> Bool(FALSE), nverify |-> n]

verifyWithWallet(a) ==
    IF a.chain # ADAPTER_CHAIN_NAME THEN False(0)
    ELSE IF a.pubkey = "" \/ a.timestamp = 0 \/ Falsy(a.signature) THEN False(0)
    ELSE IF serializeCanonicalThrows([pubkey |-> a.pubkey, windowStart |-> a.timestamp])
            \/ ~IsPublicKey(a.pubkey)
            \/ DecodeThrows(a.signature)
    THEN False(0)
    ELSE IF DecodedLen(a.signature) # SigBytes \/ Base58Len(a.pubkey) # PubkeyBytes
    THEN False(0)
    ELSE [out |-> Bool(NaclVerify(
                     serializeCanonical([pubkey |-> a.pubkey, windowStart |-> a.timestamp]),
                     a.signature, a.pubkey)),
          nverify |-> 1]

\* a mutant that returns as soon as the owner's signature has failed
VerificationsRunShortCircuit(firstOk) == IF firstOk THEN 2 ELSE 1

\* the Ed25519 verifications a delegation predicate runs once its checks have
\* passed: both, whatever the first one's result
VerificationsRun(firstOk) == 2

\* the basic validation of the proof's fields in the delegation predicates
ProofFieldMissing(p) ==
    \/ p.walletPubkey = ""
    \/ p.delegatedPubkey = ""
    \/ p.chain = ""
    \/ p.expiresAt = 0
    \/ Falsy(p.signature)

\* the try block of the delegation predicates up to the length checks: it
\* throws (and the catch returns false) or a length is wrong
DelegationDecodeFails(a, p, delegatedSig) ==
    \/ serializeDelegationProofThrows(p)
    \/ ~IsPublicKey(p.walletPubkey)
    \/ DecodeThrows(p.signature)
    \/ serializeCanonicalThrows([pubkey |-> p.delegatedPubkey, windowStart |-> a.timestamp])
    \/ ~IsPublicKey(p.delegatedPubkey)
    \/ DecodeThrows(delegatedSig)
    \/ DecodedLen(p.signature) # SigBytes
    \/ Base58Len(p.walletPubkey) # PubkeyBytes
    \/ DecodedLen(delegatedSig) # SigBytes
    \/ Base58Len(p.delegatedPubkey) # PubkeyBytes

verifyWithDelegation(t, a) ==
    LET p == a.delegationProof IN
    IF a.chain # ADAPTER_CHAIN_NAME THEN False(0)
    ELSE IF a.pubkey = "" \/ a.timestamp = 0 \/ Falsy(a.signature) THEN False(0)
    ELSE IF p = Undefined THEN [out |-> Thrown("TypeError"), nverify |-> 0]
    ELSE IF ProofFieldMissing(p) THEN False(0)
    ELSE IF p.chain # ADAPTER_CHAIN_NAME THEN False(0)
    ELSE IF a.pubkey # p.delegatedPubkey THEN False(0)
    ELSE IF p.expiresAt < t THEN False(0)
    ELSE IF DelegationDecodeFails(a, p, a.signature) THEN False(0)
    ELSE LET delegationProofOk ==
                 NaclVerify(serializeDelegationProof(p), p.signature, p.walletPubkey)
             canonicalMessageOk ==
                 NaclVerify(serializeCanonical([pubkey |-> p.delegatedPubkey,
                                                windowStart |-> a.timestamp]),
                            a.signature, p.delegatedPubkey)
         IN [out |-> Bool(delegationProofOk /\ canonicalMessageOk),
             nverify |-> VerificationsRun(delegationProofOk)]

verifyRevokeWithWallet(a, revokeSignature) ==
    IF a.chain # ADAPTER_CHAIN_NAME THEN False(0)
    ELSE IF a.pubkey = "" \/ a.timestamp = 0 \/ Falsy(revokeSignature) THEN False(0)
    ELSE IF serializeCanonicalRevokeThrows(
                [pubkey |-> a.pubkey, codeHash |-> codeHash(a.code),
                 windowStart |-> a.timestamp])
            \/ ~IsPublicKey(a.pubkey)
            \/ DecodeThrows(revokeSignature)
    THEN False(0)
    ELSE IF DecodedLen(revokeSignature) # SigBytes \/ Base58Len(a.pubkey) # PubkeyBytes
    THEN False(0)
    ELSE [out |-> Bool(NaclVerify(
                     serializeCanonicalRevoke(
                         [pubkey |-> a.pubkey, codeHash |-> codeHash(a.code),
                          windowStart |-> a.timestamp]),
                     revokeSignature, a.pubkey)),
          nverify |-> 1]

verifyRevokeWithDelegation(t, a, revokeSignature) ==
    LET p == a.delegationProof IN
    IF a.chain # ADAPTER_CHAIN_NAME THEN False(0)
    ELSE IF a.pubkey = "" \/ a.timestamp = 0 \/ Falsy(a.signature) \/ p = Undefined
    THEN False(0)
    ELSE IF ProofFieldMissing(p) THEN False(0)
    ELSE IF p.chain # ADAPTER_CHAIN_NAME THEN False(0)
    ELSE IF a.pubkey # p.delegatedPubkey THEN False(0)
    ELSE IF p.expiresAt < t THEN False(0)
    ELSE IF DelegationDecodeFails(a, p, revokeSignature)
            \/ serializeCanonicalRevokeThrows(
                   [pubkey |-> p.delegatedPubkey, codeHash |-> codeHash(a.code),
                    windowStart |-> a.timestamp])
    THEN False(0)
    ELSE LET delegationProofOk ==
                 NaclVerify(serializeDelegationProof(p), p.signature, p.walletPubkey)
             revokeMessageOk ==
                 NaclVerify(serializeCanonicalRevoke(
                                [pubkey |-> p.delegatedPubkey,
                                 codeHash |-> codeHash(a.code),
                                 windowStart |-> a.timestamp]),
                            revokeSignature, p.delegatedPubkey)
         IN [out |-> Bool(delegationProofOk /\ revokeMessageOk),
             nverify |-> VerificationsRun(delegationProofOk)]

----------------------------------------------------------------------------
(* utils/protocolMeta.ts and the transaction-meta operations of the adapter *)

SCHEME == "actioncodes:"
MetaKeys == {"ver", "id", "int", "iss", "p"}

\* the memo string buildProtocolMeta writes for ver, id, int
MetaMemo(ver, id, int) == <<SCHEME, "ver", ToString(ver), "id", id, "int", int>>
JunkMemo == <<"hello">>

MemoKeys(m) == {m[i] : i \in {j \in 2..Len(m) : j % 2 = 0}}

\* parseProtocolMeta(s) throws
parseProtocolMetaThrows(m) ==
    \/ m = <<>>
    \/ Head(m) # SCHEME
    \/ Len(m) % 2 = 0
    \/ ~(MemoKeys(m) \subseteq MetaKeys)
    \/ ~({"ver", "id", "int"} \subseteq MemoKeys(m))

\* a value longer than the meta may be
BigValue == "xxxxxxxxxxxx"
PROTOCOL_META_MAX_BYTES == 512

\* the byte length of a value; BigValue stands for a string of 522 bytes
ByteLen(v) == IF v = BigValue THEN PROTOCOL_META_MAX_BYTES + 10 ELSE Len(v)

\* encodeURIComponent(v): the strings of the model with a reserved character
\* are listed, every other string of the model has none
encodeURIComponent(v) ==
    CASE v = "wallet:solana" -> "wallet%3Asolana"
      [] v = "issuer:solana" -> "issuer%3Asolana"
      [] v = " X " -> "%20X%20"
      [] OTHER -> v

\* a mutant that leaves the percent-escapes in place
decodeNothing(v) == v

\* decodeURIComponent(v)
decodeURIComponent(v) ==
    CASE v = "wallet%3Asolana" -> "wallet:solana"
      [] v = "issuer%3Asolana" -> "issuer:solana"
      [] v = "%20X%20" -> " X "
      [] OTHER -> v

\* v.trim()
Trim(v) == IF v = " X " THEN "X" ELSE v

\* the params objects of the model and their url-encoded compact JSON
MetaParams == {[action |-> "pay-2usdc"], [action |-> "hello world"]}

encodeParams(params) ==
    IF params.action = "pay-2usdc"
    THEN "%7B%22action%22%3A%22pay-2usdc%22%7D"
    ELSE "%7B%22action%22%3A%22hello%20world%22%7D"

decodeParams(v) ==
    IF v = "%7B%22action%22%3A%22pay-2usdc%22%7D"
    THEN [action |-> "pay-2usdc"]
    ELSE [action |-> "hello world"]

\* the value of key in the pairs of memo m, decoded and trimmed, or Unset
MetaValue(m, key) ==
    IF key \in MemoKeys(m)
    THEN Trim(decodeURIComponent(JsonField(Tail(m), key)))
    ELSE Unset

parseProtocolMeta(m) ==
    [ver |-> ParseNumber(JsonField(Tail(m), "ver")),
     id |-> MetaValue(m, "id"),
     int |-> MetaValue(m, "int"),
     iss |-> MetaValue(m, "iss"),
     p |-> IF "p" \in MemoKeys(m) THEN decodeParams(JsonField(Tail(m), "p"))
           ELSE Undefined]

\* the pairs buildProtocolMeta writes: ver, id, int, then iss unless it is
\* unset or equal to int, then p unless it is unset
MetaPairs(fields) ==
    <<SCHEME, "ver", ToString(fields.ver),
      "id", encodeURIComponent(fields.id),
      "int", encodeURIComponent(fields.int)>>
    \o (IF fields.iss # Unset /\ fields.iss # fields.int
        THEN <<"iss", encodeURIComponent(fields.iss)>> ELSE <<>>)
    \o (IF fields.p # Undefined THEN <<"p", encodeParams(fields.p)>> ELSE <<>>)

\* the byte length of the serialized pairs: the scheme, key=value, joined by &
RECURSIVE PairsLen(_)
PairsLen(m) ==
    IF m = <<>> THEN 0
    ELSE Len(m[1]) + 1 + ByteLen(m[2]) + 1 + PairsLen(Tail(Tail(m)))

\* buildProtocolMeta(fields): [out, value]
buildProtocolMeta(fields) ==
    LET m == MetaPairs(fields)
    IN IF Len(SCHEME) + PairsLen(Tail(m)) - 1 > PROTOCOL_META_MAX_BYTES
       THEN [out |-> Err("META_TOO_LARGE", ""), value |-> Undefined]
       ELSE [out |-> Ok, value |-> m]

\* getProtocolMeta(tx): the first memo that parses, or Undefined
RECURSIVE getProtocolMeta(_)
getProtocolMeta(tx) ==
    IF tx = <<>> THEN Undefined
    ELSE IF ~parseProtocolMetaThrows(Head(tx)) THEN Head(tx)
    ELSE getProtocolMeta(Tail(tx))

\* parseMeta(tx)
parseMeta(tx) ==
    LET m == getProtocolMeta(tx)
    IN IF m = Undefined THEN Undefined ELSE parseProtocolMeta(m)

\* a mutant that compares the meta's id with the code itself
ExpectedIdAny(a, meta) == meta.id

\* the id a transaction's meta must carry for the action code
ExpectedId(a, meta) == codeHash(a.code)

\* verifyTransactionMatchesCode(actionCode, tx) at time t: the outcome
verifyTransactionMatchesCode(t, a, tx) ==
    LET meta == parseMeta(tx) IN
    IF t > a.expiresAt THEN Err("EXPIRED_CODE", "expiresAt")
    ELSE IF meta = Undefined THEN Err("MISSING_META", "")
    ELSE IF meta.ver # 2 THEN Err("META_MISMATCH", "ver")
    ELSE IF meta.id # ExpectedId(a, meta) THEN Err("META_MISMATCH", "id")
    ELSE IF meta.int # a.pubkey THEN Err("META_MISMATCH", "int")
    ELSE Ok

----------------------------------------------------------------------------
(* Transactions: a legacy Transaction is its signature slots, one for each
   signer, and its instructions; a VersionedTransaction is its signatures and
   its MessageV0, whose instructions refer to accounts by index, the static
   keys first, then the writable and the readonly addresses of the lookups.
   Indexes count from 0 as in the source. *)

MEMO_PROGRAM_ID == "MemoProgram"

\* a signature slot of 64 zero bytes (null in a legacy Transaction), and one
\* that carries a signature
ZeroSignature == "zero"
SomeSignature == "signed"

Header(nsig, nros, nrou) ==
    [numRequiredSignatures |-> nsig, numReadonlySignedAccounts |-> nros,
     numReadonlyUnsignedAccounts |-> nrou]

CompiledIx(pid, idxs, data) ==
    [programIdIndex |-> pid, accountKeyIndexes |-> idxs, data |-> data]

MessageV0(header, keys, ixs, lookups) ==
    [header |-> header, staticAccountKeys |-> keys, compiledInstructions |-> ixs,
     addressTableLookups |-> lookups]

VersionedTransaction(message, signatures) ==
    [kind |-> "v0", message |-> message, signatures |-> signatures]

\* new VersionedTransaction(message): one zero signature for each required signer
NewVersionedTransaction(message) ==
    VersionedTransaction(message,
        [i \in 1..message.header.numRequiredSignatures |-> ZeroSignature])

LegacyTransaction(signers, ixs) ==
    [kind |-> "legacy",
     signatures |-> [i \in 1..Len(signers) |->
                        [publicKey |-> signers[i], signature |-> ZeroSignature]],
     instructions |-> ixs]

\* a string that deserializes neither as a versioned nor as a legacy transaction
InvalidTransaction == [kind |-> "invalid"]

\* msg.staticAccountKeys[i], undefined past the end
StaticKey(msg, i) ==
    IF i + 1 \in 1..Len(msg.staticAccountKeys) THEN msg.staticAccountKeys[i + 1]
    ELSE Unset

\* the data of the instructions of ixs whose program is the memo program
RECURSIVE MemoDataOf(_, _)
MemoDataOf(tx, ixs) ==
    IF ixs = <<>> THEN <<>>
    ELSE LET pid == IF tx.kind = "legacy" THEN Head(ixs).programId
                    ELSE StaticKey(tx.message, Head(ixs).programIdIndex)
         IN (IF pid = MEMO_PROGRAM_ID THEN <<Head(ixs).data>> ELSE <<>>)
            \o MemoDataOf(tx, Tail(ixs))

\* getMemoInstructions(tx): the data of the memo instructions, in order
getMemoInstructions(tx) ==
    IF tx.kind = "invalid" THEN <<>>
    ELSE IF tx.kind = "legacy" THEN MemoDataOf(tx, tx.instructions)
    ELSE MemoDataOf(tx, tx.message.compiledInstructions)

\* a mutant that finds no meta in any transaction
TxProtocolMetaNone(tx) == Undefined

\* getProtocolMeta(txString) on a transaction
TxProtocolMeta(tx) == getProtocolMeta(getMemoInstructions(tx))

\* the keys verifyTransactionSignedByIntentOwner takes for the signers: of a
\* legacy transaction the slots that carry a signature, of a versioned one
\* the first numRequiredSignatures static keys
ActualSigners(tx) ==
    IF tx.kind = "legacy"
    THEN {tx.signatures[i].publicKey :
            i \in {j \in 1..Len(tx.signatures) : tx.signatures[j].signature # ZeroSignature}}
    ELSE {StaticKey(tx.message, i) : i \in 0..(tx.message.header.numRequiredSignatures - 1)}
         \ {Unset}

\* verifyTransactionSignedByIntentOwner(txString): the outcome
verifyTransactionSignedByIntentOwner(tx) ==
    LET meta == parseMeta(getMemoInstructions(tx)) IN
    IF meta = Undefined THEN Err("MISSING_META", "")
    ELSE IF meta.int = "" THEN Err("INVALID_META_FORMAT", "int")
    ELSE IF ~IsPublicKey(meta.int) THEN Err("INVALID_PUBKEY_FORMAT", "int")
    ELSE IF meta.iss \notin {Unset, ""} /\ ~IsPublicKey(meta.iss)
    THEN Err("INVALID_PUBKEY_FORMAT", "iss")
    ELSE IF meta.int \notin ActualSigners(tx)
    THEN Err("TRANSACTION_NOT_SIGNED_BY_INTENDED_OWNER", "")
    ELSE IF meta.iss \notin {Unset, ""} /\ meta.iss \notin ActualSigners(tx)
    THEN Err("TRANSACTION_NOT_SIGNED_BY_ISSUER", "")
    ELSE Ok

\* the sequences of q joined
RECURSIVE Flatten(_)
Flatten(q) == IF q = <<>> THEN <<>> ELSE Head(q) \o Flatten(Tail(q))

\* q without the later occurrences of its elements
RECURSIVE Dedup(_)
Dedup(q) ==
    IF q = <<>> THEN <<>>
    ELSE LET d == Dedup(SubSeq(q, 1, Len(q) - 1))
         IN IF \E i \in 1..Len(d) : d[i] = q[Len(q)] THEN d ELSE Append(d, q[Len(q)])

Has(q, x) == \E i \in 1..Len(q) : q[i] = x

\* a mutant that always finds the first element
FindIndexFirst(q, x) == 0

\* q.findIndex(k => k.equals(x))
FindIndex(q, x) == (CHOOSE i \in 1..Len(q) : q[i] = x /\ \A j \in 1..(i - 1) : q[j] # x) - 1

LookupWritable(msg) ==
    Flatten([i \in 1..Len(msg.addressTableLookups) |-> msg.addressTableLookups[i].writable])
LookupReadonly(msg) ==
    Flatten([i \in 1..Len(msg.addressTableLookups) |-> msg.addressTableLookups[i].readonly])

\* message.getAccountKeys(...): static keys, then writable, then readonly lookups
AccountKeys(msg) == msg.staticAccountKeys \o LookupWritable(msg) \o LookupReadonly(msg)

IsSignerIndex(msg, i) == i < msg.header.numRequiredSignatures

IsWritableIndex(msg, i) ==
    LET n == Len(msg.staticAccountKeys)
        h == msg.header
    IN IF i < h.numRequiredSignatures
       THEN i < h.numRequiredSignatures - h.numReadonlySignedAccounts
       ELSE IF i < n THEN i < n - h.numReadonlyUnsignedAccounts
       ELSE i < n + Len(LookupWritable(msg))

\* TransactionMessage.decompile(msg, {addressLookupTableAccounts}): the payer
\* and the instructions with their accounts by address
Decompile(msg) ==
    [payerKey |-> AccountKeys(msg)[1],
     instructions |->
        [n \in 1..Len(msg.compiledInstructions) |->
            LET ix == msg.compiledInstructions[n]
            IN [programId |-> AccountKeys(msg)[ix.programIdIndex + 1],
                keys |-> [j \in 1..Len(ix.accountKeyIndexes) |->
                            [pubkey |-> AccountKeys(msg)[ix.accountKeyIndexes[j] + 1],
                             isSigner |-> IsSignerIndex(msg, ix.accountKeyIndexes[j]),
                             isWritable |-> IsWritableIndex(msg, ix.accountKeyIndexes[j])]],
                data |-> ix.data]]]

\* the instruction createMemoInstruction makes of a memo string
MemoInstruction(memo) == [programId |-> MEMO_PROGRAM_ID, keys |-> <<>>, data |-> memo]

\* compileToV0Message(addressLookupTableAccounts) of payer and instructions:
\* the keys in the order of their first use, the payer first; the keys that
\* neither sign nor are invoked and are found in a table go to its lookup;
\* the others are the static keys, writable signers first, then readonly
\* signers, writable non-signers and readonly non-signers; the instructions
\* are indexed anew
CompileToV0Message(payerKey, instructions, tables) ==
    LET refs == Flatten([n \in 1..Len(instructions) |-> instructions[n].keys])
        used == Dedup(<<payerKey>> \o
                      Flatten([n \in 1..Len(instructions) |->
                                  <<instructions[n].programId>> \o
                                  [j \in 1..Len(instructions[n].keys) |->
                                      instructions[n].keys[j].pubkey]]))
        signer(k) == k = payerKey \/ \E j \in 1..Len(refs) : refs[j].pubkey = k /\ refs[j].isSigner
        writable(k) ==
            k = payerKey \/ \E j \in 1..Len(refs) : refs[j].pubkey = k /\ refs[j].isWritable
        invoked(k) == \E n \in 1..Len(instructions) : instructions[n].programId = k
        drained(k) ==
            /\ ~signer(k) /\ ~invoked(k)
            /\ \E t \in 1..Len(tables) : Has(tables[t].writable \o tables[t].readonly, k)
        inTable(t, k) == drained(k) /\ Has(tables[t].writable \o tables[t].readonly, k)
        lookupOf(t) ==
            [accountKey |-> tables[t].accountKey,
             writable |-> SelectSeq(used, LAMBDA k : inTable(t, k) /\ writable(k)),
             readonly |-> SelectSeq(used, LAMBDA k : inTable(t, k) /\ ~writable(k))]
        lookups == SelectSeq([t \in 1..Len(tables) |-> lookupOf(t)],
                             LAMBDA l : l.writable # <<>> \/ l.readonly # <<>>)
        ws == SelectSeq(used, LAMBDA k : ~drained(k) /\ signer(k) /\ writable(k))
        rs == SelectSeq(used, LAMBDA k : ~drained(k) /\ signer(k) /\ ~writable(k))
        wn == SelectSeq(used, LAMBDA k : ~drained(k) /\ ~signer(k) /\ writable(k))
        rn == SelectSeq(used, LAMBDA k : ~drained(k) /\ ~signer(k) /\ ~writable(k))
        skeleton == MessageV0(Header(Len(ws) + Len(rs), Len(rs), Len(rn)),
                              ws \o rs \o wn \o rn, <<>>, lookups)
        keys == AccountKeys(skeleton)
    IN [skeleton EXCEPT !.compiledInstructions =
            [n \in 1..Len(instructions) |->
                CompiledIx(FindIndex(keys, instructions[n].programId),
                           [j \in 1..Len(instructions[n].keys) |->
                               FindIndex(keys, instructions[n].keys[j].pubkey)],
                           instructions[n].data)]]

\* what the Connection given to attachProtocolMeta does
Connections == {"none", "resolves", "unknownTable"}

\* some instruction refers to an account past the static keys
ReferencesLookupAccounts(msg) ==
    \E n \in 1..Len(msg.compiledInstructions) :
        \E j \in 1..Len(msg.compiledInstructions[n].accountKeyIndexes) :
            msg.compiledInstructions[n].accountKeyIndexes[j] >= Len(msg.staticAccountKeys)

\* the signatures attachProtocolMeta gives the rewritten versioned transaction
AttachedSignatures(tx, msg) == tx.signatures

\* attachProtocolMeta on a versioned transaction whose instructions refer to
\* lookup accounts: decompile, push the memo, compile anew
AttachRecompiled(tx, memo) ==
    LET d == Decompile(tx.message)
        msg == CompileToV0Message(d.payerKey, Append(d.instructions, MemoInstruction(memo)),
                                  tx.message.addressTableLookups)
    IN VersionedTransaction(msg, AttachedSignatures(tx, msg))

\* attachProtocolMeta on any other versioned transaction: the memo program is
\* appended to the static keys if absent and the instruction to the instructions
AttachAppended(tx, memo) ==
    LET old == tx.message
        newStaticKeys == IF Has(old.staticAccountKeys, MEMO_PROGRAM_ID)
                         THEN old.staticAccountKeys
                         ELSE Append(old.staticAccountKeys, MEMO_PROGRAM_ID)
        compiledIx == CompiledIx(FindIndex(newStaticKeys, MEMO_PROGRAM_ID), <<>>, memo)
        msg == MessageV0(old.header, newStaticKeys,
                         Append(old.compiledInstructions, compiledIx),
                         old.addressTableLookups)
    IN VersionedTransaction(msg, AttachedSignatures(tx, msg))

\* legacyTx.add(metaIx) and serialize({requireAllSignatures: false}), which
\* throws when a slot carries a signature, made over the message before
LegacySerializeThrows(tx) ==
    \E i \in 1..Len(tx.signatures) : tx.signatures[i].signature # ZeroSignature

AttachLegacy(tx, memo) ==
    [tx EXCEPT !.instructions = Append(@, [programId |-> MEMO_PROGRAM_ID, data |-> memo])]

\* attachProtocolMeta(txString, meta, connection): [out, value]
attachProtocolMeta(tx, meta, connection) ==
    LET built == buildProtocolMeta(meta)
        refuse(field) == [out |-> Err("INVALID_TRANSACTION_FORMAT", field), value |-> Undefined]
    IN IF TxProtocolMeta(tx) # Undefined THEN refuse("meta")
       ELSE IF ~IsOk(built.out) THEN [out |-> built.out, value |-> Undefined]
       ELSE IF tx.kind = "invalid" THEN refuse("tx")
       ELSE IF tx.kind = "legacy"
       THEN IF LegacySerializeThrows(tx) THEN refuse("tx")
            ELSE [out |-> Ok, value |-> AttachLegacy(tx, built.value)]
       ELSE IF tx.message.addressTableLookups # <<>> /\ ReferencesLookupAccounts(tx.message)
       THEN IF connection # "resolves" THEN refuse("connection")
            ELSE [out |-> Ok, value |-> AttachRecompiled(tx, built.value)]
       ELSE [out |-> Ok, value |-> AttachAppended(tx, built.value)]

----------------------------------------------------------------------------
(* ActionCodesProtocol *)

\* the adapters the constructor registers
DefaultAdapters == [chain \in {ADAPTER_CHAIN_NAME} |-> "SolanaAdapter"]

\* property names every object literal inherits from Object.prototype
ObjectPrototypeKeys == {"constructor"}

\* a mutant whose registry is shared by the protocol objects of the process
getAdapterShared(chain) ==
    IF chain \in DOMAIN adapters THEN adapters[chain]
    ELSE IF chain \in DOMAIN peer THEN peer[chain]
    ELSE IF chain \in ObjectPrototypeKeys THEN "inherited"
    ELSE "none"

\* getAdapter(chain): this.adapters[chain], a property lookup on an object
\* literal; "none" is undefined, "inherited" a value found on Object.prototype
getAdapter(chain) ==
    IF chain \in DOMAIN adapters THEN adapters[chain]
    ELSE IF chain \in ObjectPrototypeKeys THEN "inherited"
    ELSE "none"

\* adapter.verifyWithWallet(a) or adapter.verifyWithDelegation(a) on the adapter
\* found: a StubAdapter is a caller's adapter whose predicates return true
AdapterVerify(adapter, strategy, t, a) ==
    IF adapter = "inherited" THEN [out |-> Thrown("TypeError"), nverify |-> 0]
    ELSE IF adapter = "StubAdapter" THEN [out |-> Bool(TRUE), nverify |-> 0]
    ELSE IF strategy = "wallet" THEN verifyWithWallet(a)
    ELSE verifyWithDelegation(t, a)

\* validate(strategy, actionCode) at time t: [strat, out, nverify], strat the
\* outcome of the strategy's validation, out the outcome of validate
validate(c, t, strategy, a) ==
    LET v == IF strategy = "wallet"
             THEN [out |-> validateCode(c, t, a), nverify |-> 0]
             ELSE validateDelegatedCode(c, t, a)
        adapter == getAdapter(a.chain)
        r == AdapterVerify(adapter, strategy, t, a)
    IN IF ~IsOk(v.out) THEN [strat |-> v.out, out |-> v.out, nverify |-> v.nverify]
       ELSE IF adapter = "none"
       THEN [strat |-> v.out, out |-> Err("INVALID_ADAPTER", "chain"),
             nverify |-> v.nverify]
       ELSE IF r.out.kind = "throw"
       THEN [strat |-> v.out, out |-> r.out, nverify |-> v.nverify + r.nverify]
       ELSE IF r.out.kind # "true"
       THEN [strat |-> v.out, out |-> Err("INVALID_SIGNATURE", "signature"),
             nverify |-> v.nverify + r.nverify]
       ELSE [strat |-> v.out, out |-> Ok, nverify |-> v.nverify + r.nverify]

----------------------------------------------------------------------------
(* Inputs of the model *)

TtlChoices == {1, 2}
SkewChoices == {NoSkew, 1}

Configs ==
    [codeLength : {DefaultCodeLength}, ttlMs : TtlChoices, clockSkewMs : SkewChoices]

ExpRange == 0..(MaxTime + MaxFuture + 1)

ProofFields ==
    [walletPubkey : Wallets, delegatedPubkey : Delegates,
     expiresAt : ExpRange \ {0}, chain : {"solana"}]

WithSignature(f, s) ==
    [walletPubkey |-> f.walletPubkey, delegatedPubkey |-> f.delegatedPubkey,
     expiresAt |-> f.expiresAt, chain |-> f.chain, signature |-> s]

\* the owner's signature over the serialized proof
OwnerSigned(f) == WithSignature(f, Ed(f.walletPubkey, serializeDelegationProof(f)))

\* proofs the owner signed
ProofInputs == {OwnerSigned(f) : f \in ProofFields}

\* what the host's signFn may resolve with, for a message made for pubkey pk
SignOutputs(pk, m) ==
    {Ed(k, m) : k \in ({pk} \cap Keys) \cup {"D1"}}
    \cup {ShortSig, EmptySig, NotBase58Sig}

\* what the host's signFn may reject with
SignFnErrors == {"UserCancelled", "Timeout"}

NoCall == [kind |-> "none"]
NoTx == [kind |-> "none"]
NoCode == [kind |-> "none"]

Call(op, strategy, arg, sig, tx, r) ==
    [op |-> op, strategy |-> strategy, arg |-> arg, sig |-> sig, tx |-> tx,
     chain |-> "", at |-> now, strat |-> r.strat, out |-> r.out, nverify |-> r.nverify]

\* a call of generate or revoke, which take a chain argument
CallOn(chain, c) == [c EXCEPT !.chain = chain]

\* the result of a call that is no validation
Res(o, n) == [strat |-> Ok, out |-> o, nverify |-> n]

\* One field of a proof changed, the owner's signature kept
ProofTampers(p) ==
    IF p = Undefined THEN {}
    ELSE {[p EXCEPT !.walletPubkey = k] : k \in PubkeyStrings}
         \cup {[p EXCEPT !.delegatedPubkey = k] : k \in PubkeyStrings}
         \cup {[p EXCEPT !.expiresAt = e] : e \in ExpRange}
         \cup {[p EXCEPT !.chain = ch] : ch \in ChainStrings}
         \cup {[p EXCEPT !.signature = x] : x \in {EmptySig, ShortSig, NotBase58Sig}}

\* The issued code with one of its own fields changed
FieldTampers(a) ==
    {[a EXCEPT !.expiresAt = e] : e \in 0..(MaxTime + 2)}
    \cup {[a EXCEPT !.pubkey = k] : k \in PubkeyStrings}
    \cup {[a EXCEPT !.timestamp = x] : x \in 0..MaxTime}
    \cup {[a EXCEPT !.chain = ch] : ch \in ChainStrings}
    \cup {[a EXCEPT !.signature = x] : x \in {EmptySig, ShortSig, NotBase58Sig}}

\* The issued code with its proof changed in one field, replaced, or removed
ProofSwaps(a) ==
    {[a EXCEPT !.delegationProof = p] :
        p \in ProofTampers(a.delegationProof) \cup ProofInputs \cup {Undefined}}

\* The records a caller can hand to validation
CodeTampers(a) == {a} \cup FieldTampers(a) \cup ProofSwaps(a)

\* the canonical revoke message of a code, signed with the code's pubkey
RevokeMessage(a) ==
    serializeCanonicalRevoke(
        [pubkey |-> a.pubkey, codeHash |-> codeHash(a.code), windowStart |-> a.timestamp])

RevokeSigs(a) ==
    {Ed(k, RevokeMessage(a)) : k \in ({a.pubkey} \cap Keys) \cup {"D1"}}
    \cup {a.signature, EmptySig, ShortSig, NotBase58Sig}

\* (record, revoke signature) pairs handed to the revoke predicates
RevokeInputs(a) ==
    {<<a, x>> : x \in RevokeSigs(a)}
    \cup {<<b, Ed(a.pubkey, RevokeMessage(a))>> :
            b \in {c \in CodeTampers(a) : c.expiresAt = a.expiresAt}}

MaxMemos == 2
Memos(a) ==
    {JunkMemo,
     MetaMemo(2, codeHash(a.code), a.pubkey),
     MetaMemo(1, codeHash(a.code), a.pubkey),
     MetaMemo(2, "wrong-hash", a.pubkey),
     MetaMemo(2, codeHash(a.code), "notakey")}
Txs(a) == UNION {[1..n -> Memos(a)] : n \in 0..MaxMemos}

----------------------------------------------------------------------------
(* The state machine.  call is the call the caller has just made, with its    *)
(* input and its outcome; Return hands the outcome over and clears it.        *)

Init ==
    /\ now = 1
    /\ cfg \in Configs
    /\ pending = NoCall
    /\ issued = NoCode
    /\ call = NoCall
    /\ adapters = DefaultAdapters
    /\ signed = <<>>
    /\ rejected = NoCall
    /\ txn = NoTx
    /\ revoked = NoCode
    /\ peer = DefaultAdapters

\* Date.now() advances between calls
Tick ==
    /\ call = NoCall
    /\ now < MaxTime
    /\ now' = now + 1
    /\ UNCHANGED <<cfg, pending, issued, call, adapters, signed, rejected, txn, revoked, peer>>

\* the caller has taken the outcome of its call
Return ==
    /\ call # NoCall
    /\ call' = NoCall
    /\ signed' = <<>>
    /\ UNCHANGED <<now, cfg, pending, issued, adapters, rejected, txn, revoked, peer>>

\* a mutant that has the delegated code signed for the owner's key
SigningPubkeyOwner(strategy, arg) ==
    IF strategy = "wallet" THEN arg ELSE arg.walletPubkey

\* the pubkey generate builds the canonical message for
SigningPubkey(strategy, arg) ==
    IF strategy = "wallet" THEN arg ELSE arg.delegatedPubkey

\* generate(strategy, pubkeyOrProof, chain, signFn) up to the await of signFn
GenerateBegin(strategy, arg, chain, hasSignFn) ==
    LET pk == SigningPubkey(strategy, arg)
        fail(o) == /\ call' = CallOn(chain, Call("generate", strategy, arg, EmptySig, <<>>,
                                              Res(o, 0)))
                   /\ pending' = NoCall
                   /\ signed' = <<>>
    IN /\ pending = NoCall
       /\ call = NoCall
       /\ IF chain \notin SUPPORTED_CHAINS
          THEN fail(Err("INVALID_ADAPTER", "chain"))
          ELSE IF ~hasSignFn
          THEN fail(Err("INVALID_SIGNATURE", "signFn"))
          ELSE IF serializeCanonicalThrows([pubkey |-> pk, windowStart |-> now])
          THEN fail(Err("INVALID_INPUT", "pubkey"))
          ELSE /\ pending' = [op |-> "generate", strategy |-> strategy, arg |-> arg,
                              chain |-> chain, pubkey |-> pk,
                              canonical |-> getCanonicalMessageParts(pk, now)]
               /\ call' = NoCall
               /\ signed' = <<getCanonicalMessageParts(pk, now)>>
       /\ UNCHANGED <<now, cfg, issued, adapters, rejected, txn, revoked, peer>>

\* signFn resolves with a signature and generate runs to its end
GenerateResume(signature) ==
    /\ pending # NoCall
    /\ pending.op = "generate"
    /\ call = NoCall
    /\ LET r == IF Falsy(signature)
                THEN [out |-> Err("INVALID_SIGNATURE", "signature"), value |-> Undefined]
                ELSE IF pending.strategy = "wallet"
                THEN generateCode(cfg, pending.canonical, pending.chain, signature)
                ELSE generateDelegatedCode(cfg, now, pending.arg, pending.canonical,
                                           pending.chain, signature)
       IN /\ call' = CallOn(pending.chain,
                            Call("generate", pending.strategy, pending.arg, signature, <<>>,
                                 Res(r.out, 0)))
          /\ issued' = IF IsOk(r.out) THEN r.value ELSE issued
    /\ pending' = NoCall
    /\ UNCHANGED <<now, cfg, adapters, signed, rejected, txn, revoked, peer>>

\* signFn rejects (the host cancels or times out): the await rethrows the error
SignFnReject(error) ==
    /\ pending # NoCall
    /\ call = NoCall
    /\ call' = CallOn(pending.chain,
                      Call(pending.op, pending.strategy, pending.arg, EmptySig, <<>>,
                           Res(Thrown(error), 0)))
    /\ pending' = NoCall
    /\ UNCHANGED <<now, cfg, issued, adapters, signed, rejected, txn, revoked, peer>>

\* delegationStrategy.generateDelegatedCode(proof, canonicalMessage, chain, signature)
GenerateDelegatedCode(p, pk, x) ==
    /\ pending = NoCall
    /\ call = NoCall
    /\ LET m == getCanonicalMessageParts(pk, now)
           r == generateDelegatedCode(cfg, now, p, m, "solana", x)
       IN /\ call' = Call("generateDelegatedCode", "delegation", p, x, <<>>, Res(r.out, 0))
          /\ issued' = IF IsOk(r.out) THEN r.value ELSE issued
    /\ UNCHANGED <<now, cfg, pending, adapters, signed, rejected, txn, revoked, peer>>

\* walletStrategy.generateCode(canonicalMessage, chain, signature), called
\* directly with the canonical message of parts
GenerateCode(parts, chain, x) ==
    /\ pending = NoCall
    /\ call = NoCall
    /\ LET r == generateCode(cfg, serializeCanonical(parts), chain, x)
       IN /\ call' = Call("generateCode", "wallet", parts, x, <<>>, Res(r.out, 0))
          /\ issued' = IF IsOk(r.out) THEN r.value ELSE issued
    /\ UNCHANGED <<now, cfg, pending, adapters, signed, rejected, txn, revoked, peer>>

\* a call on a record the caller holds
Idle == pending = NoCall /\ call = NoCall /\ issued # NoCode

\* protocol.validate(strategy, a)
Validate(strategy, a) ==
    /\ Idle
    /\ call' = Call("validate", strategy, a, EmptySig, <<>>, validate(cfg, now, strategy, a))
    /\ UNCHANGED <<now, cfg, pending, issued, adapters, signed, rejected, txn, revoked, peer>>

\* adapter.verifyWithWallet(a)
VerifyWithWallet(a) ==
    /\ Idle
    /\ LET r == verifyWithWallet(a)
       IN call' = Call("verifyWithWallet", "wallet", a, EmptySig, <<>>,
                       Res(r.out, r.nverify))
    /\ UNCHANGED <<now, cfg, pending, issued, adapters, signed, rejected, txn, revoked, peer>>

\* adapter.verifyWithDelegation(a)
VerifyWithDelegation(a) ==
    /\ Idle
    /\ LET r == verifyWithDelegation(now, a)
       IN call' = Call("verifyWithDelegation", "delegation", a, EmptySig, <<>>,
                       Res(r.out, r.nverify))
    /\ UNCHANGED <<now, cfg, pending, issued, adapters, signed, rejected, txn, revoked, peer>>

\* adapter.verifyRevokeWithWallet(a, revokeSignature)
VerifyRevokeWithWallet(a, x) ==
    /\ Idle
    /\ LET r == verifyRevokeWithWallet(a, x)
       IN call' = Call("verifyRevokeWithWallet", "wallet", a, x, <<>>,
                       Res(r.out, r.nverify))
    /\ UNCHANGED <<now, cfg, pending, issued, adapters, signed, rejected, txn, revoked, peer>>

\* adapter.verifyRevokeWithDelegation(a, revokeSignature)
VerifyRevokeWithDelegation(a, x) ==
    /\ Idle
    /\ LET r == verifyRevokeWithDelegation(now, a, x)
       IN call' = Call("verifyRevokeWithDelegation", "delegation", a, x, <<>>,
                       Res(r.out, r.nverify))
    /\ UNCHANGED <<now, cfg, pending, issued, adapters, signed, rejected, txn, revoked, peer>>

\* adapter.verifyTransactionMatchesCode(a, tx)
VerifyTransactionMatchesCode(a, tx) ==
    /\ Idle
    /\ call' = Call("verifyTransactionMatchesCode", "wallet", a, EmptySig, tx,
                    Res(verifyTransactionMatchesCode(now, a, tx), 0))
    /\ UNCHANGED <<now, cfg, pending, issued, adapters, signed, rejected, txn, revoked, peer>>

Next ==
    \/ Tick
    \/ Return
    \/ /\ pending = NoCall /\ call = NoCall
       /\ \E pk \in {"W1", "notakey", ""}, chain \in {"solana", "other"}, f \in BOOLEAN :
              GenerateBegin("wallet", pk, chain, f)
    \/ /\ pending = NoCall /\ call = NoCall
       /\ \E p \in ProofInputs, chain \in {"solana", "other"}, f \in BOOLEAN :
              GenerateBegin("delegation", p, chain, f)
    \/ /\ pending # NoCall /\ call = NoCall
       /\ \E x \in SignOutputs(pending.pubkey, pending.canonical) : GenerateResume(x)
    \/ \E error \in SignFnErrors : SignFnReject(error)
    \/ /\ pending = NoCall /\ call = NoCall
       /\ \E p \in ProofInputs, pk \in Delegates :
           GenerateDelegatedCode(p, pk, Ed(pk, getCanonicalMessageParts(pk, now)))
    \/ /\ Idle
       /\ \E a \in {issued} \cup FieldTampers(issued) :
              \/ Validate("wallet", a)
              \/ VerifyWithWallet(a)
    \/ /\ Idle
       /\ \E a \in CodeTampers(issued) :
              \/ Validate("delegation", a)
              \/ VerifyWithDelegation(a)
    \/ /\ Idle
       /\ \E i \in RevokeInputs(issued) :
              \/ VerifyRevokeWithWallet(i[1], i[2])
              \/ VerifyRevokeWithDelegation(i[1], i[2])
    \/ /\ Idle
       /\ \E tx \in Txs(issued) : VerifyTransactionMatchesCode(issued, tx)

Spec == Init /\ [][Next]_vars

----------------------------------------------------------------------------
(* The protocol object over its life: codes generated, revoked and validated
   while adapters are registered *)

\* chain names given by callers: the supported one, an unsupported one, and a
\* name every JavaScript object inherits
LifeChains == {"solana", "other", "constructor"}
AdapterChoices == {"SolanaAdapter", "StubAdapter"}

\* registerAdapter(chain, adapter)
RegisterAdapter(chain, adapter) ==
    /\ call = NoCall
    /\ adapters' = [c \in DOMAIN adapters \cup {chain} |->
                        IF c = chain THEN adapter ELSE adapters[c]]
    /\ UNCHANGED <<now, cfg, pending, issued, call, signed, rejected, txn, revoked, peer>>

\* revoke(strategy, actionCode, chain, signFn) up to its await of signFn
RevokeBegin(strategy, a, chain, hasSignFn) ==
    LET fail(o) == /\ call' = CallOn(chain, Call("revoke", strategy, a, EmptySig, <<>>,
                                              Res(o, 0)))
                   /\ pending' = NoCall
                   /\ signed' = <<>>
    IN /\ pending = NoCall
       /\ call = NoCall
       /\ IF chain \notin SUPPORTED_CHAINS
          THEN fail(Err("INVALID_ADAPTER", "chain"))
          ELSE IF ~hasSignFn
          THEN fail(Err("INVALID_SIGNATURE", "signFn"))
          ELSE IF strategy = "delegation" /\ a.delegationProof = Undefined
          THEN fail(Thrown("TypeError"))
          ELSE LET parts == [pubkey |-> SigningPubkey(strategy,
                                           IF strategy = "wallet" THEN a.pubkey
                                           ELSE a.delegationProof),
                             codeHash |-> codeHash(a.code),
                             windowStart |-> a.timestamp]
               IN IF serializeCanonicalRevokeThrows(parts)
                  THEN fail(Err("INVALID_INPUT", "pubkey"))
                  ELSE /\ pending' = [op |-> "revoke", strategy |-> strategy, arg |-> a,
                                      chain |-> chain, pubkey |-> parts.pubkey,
                                      canonical |-> serializeCanonicalRevoke(parts)]
                       /\ call' = NoCall
                       /\ signed' = <<serializeCanonicalRevoke(parts)>>
       /\ UNCHANGED <<now, cfg, issued, adapters, rejected, txn, revoked, peer>>

\* a mutant that writes the revoke signature over the code's own signature
RevokeRecordResigned(a, signature) ==
    [code |-> a.code, pubkey |-> a.pubkey, timestamp |-> a.timestamp,
     expiresAt |-> a.expiresAt, chain |-> a.chain, signature |-> signature,
     delegationProof |-> a.delegationProof, revokeSignature |-> signature]

\* the record revoke returns: { ...actionCode, revokeSignature: signature }
RevokeRecord(a, signature) ==
    [code |-> a.code, pubkey |-> a.pubkey, timestamp |-> a.timestamp,
     expiresAt |-> a.expiresAt, chain |-> a.chain, signature |-> a.signature,
     delegationProof |-> a.delegationProof, revokeSignature |-> signature]

\* signFn resolves with a signature and revoke runs to its end; the caller
\* keeps the record returned, or drops it
RevokeResume(signature, keep) ==
    /\ pending # NoCall
    /\ pending.op = "revoke"
    /\ call = NoCall
    /\ call' = CallOn(pending.chain,
                      Call("revoke", pending.strategy, pending.arg, signature, <<>>,
                           Res(IF Falsy(signature)
                               THEN Err("INVALID_SIGNATURE", "signature") ELSE Ok, 0)))
    /\ revoked' = IF keep /\ ~Falsy(signature) THEN RevokeRecord(pending.arg, signature)
                  ELSE revoked
    /\ pending' = NoCall
    /\ UNCHANGED <<now, cfg, issued, adapters, signed, rejected, txn, peer>>

\* protocol.validate(strategy, a) by a caller that may remember a call which
\* raised EXPIRED_CODE
ValidateHeld(strategy, a, remember) ==
    /\ Idle
    /\ call' = Call("validate", strategy, a, EmptySig, <<>>, validate(cfg, now, strategy, a))
    /\ rejected' = IF remember /\ call'.out = Err("EXPIRED_CODE", "expiresAt")
                   THEN call' ELSE rejected
    /\ UNCHANGED <<now, cfg, pending, issued, adapters, signed, txn, revoked, peer>>

\* the records handed to validate: the code held, the code of the remembered
\* call, and the code held under another chain name
HeldCodes ==
    {issued} \cup {[issued EXCEPT !.chain = ch] : ch \in LifeChains}
    \cup (IF rejected = NoCall THEN {} ELSE {rejected.arg})

\* the proofs handed to generate: W1 delegating to D1
LifeProofs ==
    {p \in ProofInputs : p.walletPubkey = "W1" /\ p.delegatedPubkey = "D1" /\ p.expiresAt \in 2..3}

InitLife == Init /\ cfg.ttlMs = 1

\* Date.now() advances between calls, far enough for a code to be validated
\* at two times after its expiry
TickLife ==
    /\ call = NoCall
    /\ now < MaxLifeTime
    /\ now' = now + 1
    /\ UNCHANGED <<cfg, pending, issued, call, adapters, signed, rejected, txn, revoked, peer>>

NextLife ==
    \/ TickLife
    \/ Return
    \/ \E chain \in {"solana", "other"}, adapter \in AdapterChoices :
           RegisterAdapter(chain, adapter)
    \/ /\ pending = NoCall /\ call = NoCall
       /\ \E chain \in LifeChains, f \in BOOLEAN : GenerateBegin("wallet", "W1", chain, f)
    \/ /\ pending = NoCall /\ call = NoCall
       /\ \E p \in LifeProofs : GenerateBegin("delegation", p, "solana", TRUE)
    \/ /\ pending # NoCall /\ call = NoCall
       /\ \E x \in {Ed(pending.pubkey, pending.canonical), EmptySig} : GenerateResume(x)
    \/ \E error \in SignFnErrors : SignFnReject(error)
    \/ /\ Idle
       /\ \E strategy \in {"wallet", "delegation"}, chain \in LifeChains, f \in BOOLEAN :
              RevokeBegin(strategy, issued, chain, f)
    \/ /\ pending # NoCall /\ call = NoCall
       /\ \E x \in {Ed(pending.pubkey, pending.canonical), EmptySig} :
              RevokeResume(x, FALSE)
    \/ /\ Idle
       /\ \E strategy \in {"wallet", "delegation"}, a \in HeldCodes, remember \in BOOLEAN :
              ValidateHeld(strategy, a, remember)

SpecLife == InitLife /\ [][NextLife]_vars

----------------------------------------------------------------------------
(* buildProtocolMeta and parseProtocolMeta on their own *)

MetaStrings == {"abc123", "wallet:solana", "issuer:solana", "W1", " X ", BigValue}

\* the ProtocolMetaFields handed to buildProtocolMeta
MetaInputs ==
    [ver : {2}, id : {"abc123", " X ", BigValue}, int : MetaStrings \ {BigValue},
     iss : (MetaStrings \ {BigValue}) \cup {Unset}, p : MetaParams \cup {Undefined}]

\* memo strings written by other hands
ForeignMemos ==
    {<<SCHEME, "ver", "2", "id", "%20X%20", "int", "wallet%3Asolana", "iss", "%20X%20">>,
     <<SCHEME, "ver", "1", "id", "abc", "int", "x", "x", "1">>,
     <<SCHEME, "ver", "1", "int", "x">>,
     <<"wrong:", "id", "abc">>}

NoMeta == [kind |-> "meta", fields |-> Undefined, memo |-> <<>>, parsed |-> Undefined]

\* buildProtocolMeta(fields)
BuildProtocolMeta(fields) ==
    /\ call = NoCall
    /\ LET r == buildProtocolMeta(fields)
       IN /\ call' = Call("buildProtocolMeta", "", fields, EmptySig, <<>>, Res(r.out, 0))
          /\ txn' = IF IsOk(r.out)
                    THEN [kind |-> "meta", fields |-> fields, memo |-> r.value,
                          parsed |-> Undefined]
                    ELSE NoMeta
    /\ UNCHANGED <<now, cfg, pending, issued, adapters, signed, rejected, revoked, peer>>

\* parseProtocolMeta(m)
ParseProtocolMeta(m) ==
    /\ call = NoCall
    /\ LET out == IF ~parseProtocolMetaThrows(m) THEN Ok
                  ELSE IF m # <<>> /\ Head(m) = SCHEME /\ MemoKeys(m) \subseteq MetaKeys
                  THEN Err("MISSING_REQUIRED_FIELD", "")
                  ELSE Err("INVALID_META_FORMAT", "")
       IN /\ call' = Call("parseProtocolMeta", "", m, EmptySig, <<>>, Res(out, 0))
          /\ txn' = [txn EXCEPT !.parsed = IF IsOk(out) THEN parseProtocolMeta(m)
                                           ELSE Undefined]
    /\ UNCHANGED <<now, cfg, pending, issued, adapters, signed, rejected, revoked, peer>>

InitMeta ==
    /\ now = 1
    /\ cfg \in Configs
    /\ pending = NoCall
    /\ issued = NoCode
    /\ call = NoCall
    /\ adapters = DefaultAdapters
    /\ signed = <<>>
    /\ rejected = NoCall
    /\ txn = NoMeta
    /\ revoked = NoCode
    /\ peer = DefaultAdapters

NextMeta ==
    \/ Return
    \/ \E fields \in MetaInputs : BuildProtocolMeta(fields)
    \/ \E m \in {txn.memo} \cup ForeignMemos : ParseProtocolMeta(m)

SpecMeta == InitMeta /\ [][NextMeta]_vars

----------------------------------------------------------------------------
(* The adapter's operations on a transaction a caller holds *)

Lookup(table, writable, readonly) ==
    [accountKey |-> table, writable |-> writable, readonly |-> readonly]

\* versioned messages before any meta is attached: P1 is a program, L1 and L2
\* are addresses of the lookup table T1
BaseMessages ==
    { \* one signer, no lookups
      MessageV0(Header(1, 0, 1), <<"W1", "P1">>, <<CompiledIx(1, <<0>>, "d")>>, <<>>),
      \* two signers
      MessageV0(Header(2, 0, 1), <<"W1", "D1", "P1">>, <<CompiledIx(2, <<0, 1>>, "d")>>, <<>>),
      \* the memo program among the static keys, with a memo that is no meta
      MessageV0(Header(1, 0, 2), <<"W1", "MemoProgram", "P1">>,
                <<CompiledIx(1, <<>>, JunkMemo), CompiledIx(2, <<0>>, "d")>>, <<>>),
      \* a meta written by another hand
      MessageV0(Header(1, 0, 2), <<"W1", "P1", "MemoProgram">>,
                <<CompiledIx(1, <<0>>, "d"), CompiledIx(2, <<>>, MetaMemo(2, "abc123", "W1"))>>,
                <<>>),
      \* a lookup no instruction refers to
      MessageV0(Header(1, 0, 1), <<"W1", "P1">>, <<CompiledIx(1, <<0>>, "d")>>,
                <<Lookup("T1", <<"L1">>, <<>>)>>),
      \* instructions that refer to lookup accounts
      MessageV0(Header(1, 0, 1), <<"W1", "P1">>, <<CompiledIx(1, <<0, 2>>, "d")>>,
                <<Lookup("T1", <<"L1">>, <<>>)>>),
      MessageV0(Header(1, 0, 1), <<"W1", "P1">>,
                <<CompiledIx(1, <<0, 3>>, "d"), CompiledIx(1, <<2>>, "e")>>,
                <<Lookup("T1", <<"L1">>, <<"L2">>)>>),
      \* a second, readonly signer and a lookup account
      MessageV0(Header(2, 1, 1), <<"W1", "D1", "P1">>, <<CompiledIx(2, <<0, 1, 3>>, "d")>>,
                <<Lookup("T1", <<"L1">>, <<>>)>>) }

BaseTransactions ==
    {NewVersionedTransaction(msg) : msg \in BaseMessages}
    \cup {LegacyTransaction(<<"W1">>, <<[programId |-> "P1", data |-> "d"]>>),
          LegacyTransaction(<<"D1", "W1">>, <<[programId |-> "P1", data |-> "d"]>>),
          LegacyTransaction(<<"W1">>, <<[programId |-> MEMO_PROGRAM_ID, data |-> JunkMemo],
                                       [programId |-> "P1", data |-> "d"]>>),
          InvalidTransaction}

\* the metas handed to attachProtocolMeta
TxMetas ==
    [ver : {2}, id : {"abc123", BigValue}, int : {"W1", "D1", "wallet:solana"},
     iss : {Unset, "W1", "D1"}, p : {Undefined}]

\* SolanaAdapter.attachProtocolMeta(txn, meta, connection); the caller keeps
\* the transaction returned
AttachProtocolMeta(meta, connection) ==
    /\ call = NoCall
    /\ LET r == attachProtocolMeta(txn, meta, connection)
       IN /\ call' = Call("attachProtocolMeta", connection, meta, EmptySig, txn,
                          Res(r.out, 0))
          /\ txn' = IF IsOk(r.out) THEN r.value ELSE txn
    /\ UNCHANGED <<now, cfg, pending, issued, adapters, signed, rejected, revoked, peer>>

\* a signer fills its slot of the transaction
SignTransaction(i) ==
    /\ call = NoCall
    /\ txn.kind # "invalid"
    /\ i \in 1..Len(txn.signatures)
    /\ txn' = IF txn.kind = "legacy"
              THEN [txn EXCEPT !.signatures[i].signature = SomeSignature]
              ELSE [txn EXCEPT !.signatures[i] = SomeSignature]
    /\ txn' # txn
    /\ UNCHANGED <<now, cfg, pending, issued, call, adapters, signed, rejected, revoked, peer>>

\* adapter.verifyTransactionSignedByIntentOwner(txn)
VerifyTransactionSignedByIntentOwner ==
    /\ call = NoCall
    /\ call' = Call("verifyTransactionSignedByIntentOwner", "", Undefined, EmptySig, txn,
                    Res(verifyTransactionSignedByIntentOwner(txn), 0))
    /\ UNCHANGED <<now, cfg, pending, issued, adapters, signed, rejected, txn, revoked, peer>>

InitTx ==
    /\ now = 1
    /\ cfg \in {c \in Configs : c.ttlMs = 1 /\ c.clockSkewMs = NoSkew}
    /\ pending = NoCall
    /\ issued = NoCode
    /\ call = NoCall
    /\ adapters = DefaultAdapters
    /\ signed = <<>>
    /\ rejected = NoCall
    /\ txn \in BaseTransactions
    /\ revoked = NoCode
    /\ peer = DefaultAdapters

NextTx ==
    \/ Return
    \/ \E meta \in TxMetas, connection \in Connections : AttachProtocolMeta(meta, connection)
    \/ \E i \in 1..2 : SignTransaction(i)
    \/ VerifyTransactionSignedByIntentOwner

SpecTx == InitTx /\ [][NextTx]_vars

----------------------------------------------------------------------------
(* The wallet strategy's generateCode on its own, over every code length *)

LengthChoices == {NoLength, 1, 5, 6, 7, 8, 23, 24, 25, 30}

InitCode ==
    /\ now = 1
    /\ cfg \in [codeLength : LengthChoices, ttlMs : TtlChoices, clockSkewMs : {NoSkew}]
    /\ pending = NoCall
    /\ issued = NoCode
    /\ call = NoCall
    /\ adapters = DefaultAdapters
    /\ signed = <<>>
    /\ rejected = NoCall
    /\ txn = NoTx
    /\ revoked = NoCode
    /\ peer = DefaultAdapters

NextCode ==
    \/ Tick
    \/ Return
    \/ \E pk \in Keys, w \in 1..MaxTime :
         \E x \in SignOutputs(pk, getCanonicalMessageParts(pk, w)) :
           GenerateCode([pubkey |-> pk, windowStart |-> w], "solana", x)

SpecCode == InitCode /\ [][NextCode]_vars

----------------------------------------------------------------------------
(* Codes generated, revoked, and the revoke record checked by the adapter *)

\* the proofs handed to generate: W1 delegating to D1 on the adapter's chain,
\* one proof for another chain, and one the owner has not signed
RevokeProofs ==
    {p \in ProofInputs :
        p.walletPubkey = "W1" /\ p.delegatedPubkey = "D1" /\ p.expiresAt \in 1..MaxTime}
    \cup {OwnerSigned([walletPubkey |-> "W1", delegatedPubkey |-> "D1",
                       expiresAt |-> MaxTime, chain |-> "other"])}
    \cup {LET f == [walletPubkey |-> "W1", delegatedPubkey |-> "D1",
                    expiresAt |-> MaxTime, chain |-> "solana"]
          IN WithSignature(f, Ed("D2", serializeDelegationProof(f)))}

\* the action code a revoke record was made of
ActionCodeOf(r) ==
    [code |-> r.code, pubkey |-> r.pubkey, timestamp |-> r.timestamp,
     expiresAt |-> r.expiresAt, chain |-> r.chain, signature |-> r.signature,
     delegationProof |-> r.delegationProof]

\* a code with another first digit
OtherDigits(code) == [code EXCEPT ![1] = (@ + 1) % 10]

\* the records handed to the revoke predicates together with the revoke
\* signature held: the code revoked, the code held, and the code revoked with
\* another code, pubkey or window start
RevokeChecks ==
    LET a == ActionCodeOf(revoked)
    IN {a, issued}
       \cup {[a EXCEPT !.code = OtherDigits(@)]}
       \cup {[a EXCEPT !.pubkey = k] : k \in Keys}
       \cup {[a EXCEPT !.timestamp = t] : t \in 1..MaxTime}

NextRevoke ==
    \/ Tick
    \/ Return
    \/ /\ pending = NoCall /\ call = NoCall
       /\ GenerateBegin("wallet", "W1", "solana", TRUE)
    \/ /\ pending = NoCall /\ call = NoCall
       /\ \E p \in RevokeProofs : GenerateBegin("delegation", p, "solana", TRUE)
    \/ /\ pending # NoCall /\ call = NoCall
       /\ \E x \in SignOutputs(pending.pubkey, pending.canonical) : GenerateResume(x)
    \/ \E error \in SignFnErrors : SignFnReject(error)
    \/ /\ Idle
       /\ \E strategy \in {"wallet", "delegation"} :
              RevokeBegin(strategy, issued, "solana", TRUE)
    \/ /\ pending # NoCall /\ call = NoCall
       /\ \E x \in {Ed(k, pending.canonical) : k \in {pending.pubkey, "D2"}} \cup {EmptySig} :
              RevokeResume(x, TRUE)
    \/ /\ Idle
       /\ \E strategy \in {"wallet", "delegation"} : Validate(strategy, issued)
    \/ /\ Idle /\ revoked # NoCode
       /\ \E a \in RevokeChecks :
              \/ VerifyRevokeWithWallet(a, revoked.revokeSignature)
              \/ VerifyRevokeWithDelegation(a, revoked.revokeSignature)

InitRevoke == Init /\ cfg.ttlMs = 1 /\ cfg.clockSkewMs = NoSkew

SpecRevoke == InitRevoke /\ [][NextRevoke]_vars

----------------------------------------------------------------------------
(* The canonical serializers on their own *)

RECURSIVE Repeat(_, _)
Repeat(c, n) == IF n = 0 THEN "" ELSE c \o Repeat(c, n - 1)

\* the values given for a string field: keys, the empty string, values that
\* are no strings, strings of 100 and of 101 characters, strings with a
\* character the guards refuse
CanonStrings ==
    {"W1", "D1", "", Unset, NumberValue, Repeat("k", 100), Repeat("k", 101)}
    \cup UnsafeStrings
CanonHashes == {"H1", "H2", "", NumberValue, Repeat("k", 101), "W\\1"}
CanonProofStrings == {"W1", "D1", "", Unset, "W\"1"}
CanonChains == {"solana", "other", "", Repeat("k", 101), C1String}
CanonNumbers == {1, 2, NaN, Infinity}

NoBytes == [kind |-> "bytes", op |-> "", parts |-> Undefined, bytes |-> ""]

\* a call of a serializer: the bytes returned are in call.tx, "" when it
\* throws; the caller may keep the bytes returned
Serialized(op, parts, throws, field, m, keep) ==
    /\ call = NoCall
    /\ call' = Call(op, "", parts, EmptySig, IF throws THEN "" ELSE JsonBytes(m),
                    Res(IF throws THEN Err("INVALID_INPUT", field) ELSE Ok, 0))
    /\ txn' = IF keep /\ ~throws
              THEN [kind |-> "bytes", op |-> op, parts |-> parts, bytes |-> JsonBytes(m)]
              ELSE txn
    /\ UNCHANGED <<now, cfg, pending, issued, adapters, signed, rejected, revoked, peer>>

SerializeCanonical(parts, keep) ==
    Serialized("serializeCanonical", parts, serializeCanonicalThrows(parts), "pubkey",
               serializeCanonical(parts), keep)

SerializeCanonicalRevoke(parts, keep) ==
    Serialized("serializeCanonicalRevoke", parts, serializeCanonicalRevokeThrows(parts),
               serializeCanonicalRevokeField(parts), serializeCanonicalRevoke(parts), keep)

SerializeDelegationProof(proof, keep) ==
    Serialized("serializeDelegationProof", proof, serializeDelegationProofThrows(proof),
               serializeDelegationProofField(proof), serializeDelegationProof(proof), keep)

InitCanon ==
    /\ now = 1
    /\ cfg \in {c \in Configs : c.ttlMs = 1 /\ c.clockSkewMs = NoSkew}
    /\ pending = NoCall
    /\ issued = NoCode
    /\ call = NoCall
    /\ adapters = DefaultAdapters
    /\ signed = <<>>
    /\ rejected = NoCall
    /\ txn = NoBytes
    /\ revoked = NoCode
    /\ peer = DefaultAdapters

NextCanon ==
    \/ Return
    \/ \E parts \in [pubkey : CanonStrings, windowStart : CanonNumbers], keep \in BOOLEAN :
           SerializeCanonical(parts, keep)
    \/ \E parts \in [pubkey : CanonStrings, codeHash : CanonHashes,
                      windowStart : CanonNumbers], keep \in BOOLEAN :
           SerializeCanonicalRevoke(parts, keep)
    \/ \E proof \in [walletPubkey : CanonProofStrings, delegatedPubkey : CanonProofStrings,
                      expiresAt : CanonNumbers, chain : CanonChains], keep \in BOOLEAN :
           SerializeDelegationProof(proof, keep)

SpecCanon == InitCanon /\ [][NextCanon]_vars

----------------------------------------------------------------------------
(* Properties *)

IsValidate(strategy) == call # NoCall /\ call.op = "validate" /\ call.strategy = strategy
IsOp(op) == call # NoCall /\ call.op = op
HasProof(a) == a.delegationProof # Undefined

\* the canonical generation message of a record
GenerationMessage(pk, t) == serializeCanonical([pubkey |-> pk, windowStart |-> t])

\* a wallet code as generate returns it when signFn signs with the key of the pubkey
HonestWalletCode(a) ==
    /\ ~HasProof(a)
    /\ a.pubkey \in Keys
    /\ a.signature = Ed(a.pubkey, GenerationMessage(a.pubkey, a.timestamp))

\* a delegated code as generate returns it when signFn signs with the delegated
\* key and the owner signed the proof
HonestDelegatedCode(a) ==
    /\ HasProof(a)
    /\ a.pubkey = a.delegationProof.delegatedPubkey
    /\ a.signature = Ed(a.delegationProof.delegatedPubkey,
                        GenerationMessage(a.delegationProof.delegatedPubkey, a.timestamp))
    /\ a.delegationProof.signature =
           Ed(a.delegationProof.walletPubkey, serializeDelegationProof(a.delegationProof))

\* C1 (as claimed): validate on a freshly generated code, honestly signed, does
\* not raise at any time now <= expiresAt.
C1_FreshCodeValidates ==
    (/\ call # NoCall
     /\ call.op = "validate"
     /\ call.arg = issued
     /\ call.at <= issued.expiresAt
     /\ \/ call.strategy = "wallet" /\ HonestWalletCode(issued)
        \/ call.strategy = "delegation" /\ HonestDelegatedCode(issued))
    => IsOk(call.out)

\* the wallet half of C1, which the code does satisfy
C1_FreshWalletCodeValidates ==
    (IsValidate("wallet") /\ call.arg = issued /\ call.at <= issued.expiresAt
     /\ HonestWalletCode(issued))
    => IsOk(call.out)

\* the first memo of a transaction that parses as protocol meta
FirstParsable(tx) ==
    LET idx == {i \in 1..Len(tx) : ~parseProtocolMetaThrows(tx[i])}
    IN tx[CHOOSE i \in idx : \A j \in idx : i <= j]
HasParsable(tx) == \E i \in 1..Len(tx) : ~parseProtocolMetaThrows(tx[i])

\* C2: with m the first parsable protocol-meta memo of tx,
\* verifyTransactionMatchesCode(a, tx) succeeds iff m.ver = 2, m.id = codeHash(a.code),
\* m.int = a.pubkey and now <= a.expiresAt; otherwise it raises EXPIRED_CODE,
\* MISSING_META or META_MISMATCH.
C2_BindingIff ==
    (IsOp("verifyTransactionMatchesCode") /\ HasParsable(call.tx))
    => LET m == parseProtocolMeta(FirstParsable(call.tx))
           a == call.arg
       IN /\ IsOk(call.out) <=>
                (/\ m.ver = 2
                 /\ m.id = codeHash(a.code)
                 /\ m.int = a.pubkey
                 /\ call.at <= a.expiresAt)
          /\ ~IsOk(call.out) =>
                (/\ call.out.kind = "error"
                 /\ call.out.code \in {"EXPIRED_CODE", "MISSING_META", "META_MISMATCH"})

\* C2 witness: a transaction whose first memo is no protocol meta and whose
\* second one binds the code is accepted
C2_Witness ==
    /\ IsOp("verifyTransactionMatchesCode")
    /\ Len(call.tx) = 2
    /\ parseProtocolMetaThrows(call.tx[1])
    /\ IsOk(call.out)

\* q is p with exactly one owner-signed field changed and the signature kept
OneProofFieldChanged(p, q) ==
    /\ q # Undefined
    /\ q.signature = p.signature
    /\ Cardinality({f \in {"walletPubkey", "delegatedPubkey", "chain"} : q[f] # p[f]})
         + (IF q.expiresAt # p.expiresAt THEN 1 ELSE 0) = 1

ProofTamperedCall ==
    /\ call # NoCall
    /\ HasProof(issued)
    /\ verifyWithDelegation(call.at, issued).out.kind = "true"
    /\ call.arg = [issued EXCEPT !.delegationProof = call.arg.delegationProof]
    /\ OneProofFieldChanged(issued.delegationProof, call.arg.delegationProof)

\* C3: for a delegated code verifyWithDelegation accepts, changing one of the
\* proof's owner-signed fields while keeping the proof's signature makes
\* verifyWithDelegation return false and validate('delegation') reject.
C3_TamperedProofRejected ==
    /\ (IsOp("verifyWithDelegation") /\ ProofTamperedCall) => call.out.kind = "false"
    /\ (IsValidate("delegation") /\ ProofTamperedCall) => call.out.kind = "error"

\* C3 witness: only expiresAt was moved, to a time still ahead, and the owner's
\* signature is the check that fails
C3_Witness ==
    /\ IsOp("verifyWithDelegation")
    /\ ProofTamperedCall
    /\ call.arg.delegationProof.expiresAt # issued.delegationProof.expiresAt
    /\ call.arg.delegationProof.expiresAt >= call.at
    /\ call.nverify = 2
    /\ call.out.kind = "false"

\* a delegated code that outlives its proof is handed to validateDelegatedCode
OutlivingCall ==
    /\ IsValidate("delegation")
    /\ HasProof(call.arg)
    /\ call.arg.expiresAt > call.arg.delegationProof.expiresAt

\* C4 (as claimed): validateDelegatedCode rejects with INVALID_INPUT every
\* delegated code with expiresAt > delegationProof.expiresAt.
C4_Original ==
    OutlivingCall => call.strat = Err("INVALID_INPUT", call.strat.field)

\* C4 (amended): validateDelegatedCode rejects every delegated code with
\* expiresAt > delegationProof.expiresAt, whatever its signatures: with
\* INVALID_INPUT, or with EXPIRED_CODE when the code or the proof has expired.
C4_OutlivingRejected ==
    OutlivingCall =>
        /\ call.strat.kind = "error"
        /\ call.strat.code \in {"INVALID_INPUT", "EXPIRED_CODE"}
        /\ call.strat.code = "EXPIRED_CODE" =>
               \/ call.at > call.arg.expiresAt + ClockSkew(cfg)
               \/ call.arg.delegationProof.expiresAt < call.at
        /\ call.nverify = 0

\* C4 witness: an unexpired code under an unexpired, well-formed proof is
\* rejected for outliving it
C4_Witness ==
    /\ OutlivingCall
    /\ call.at <= call.arg.delegationProof.expiresAt
    /\ call.arg.pubkey = call.arg.delegationProof.delegatedPubkey
    /\ call.strat = Err("INVALID_INPUT", "expiresAt")

\* C5 (as claimed): every delegated action code generation returns has
\* expiresAt <= delegationProof.expiresAt.
C5_Original ==
    (issued # NoCode /\ HasProof(issued))
    => issued.expiresAt <= issued.delegationProof.expiresAt

\* C6 (as claimed): every delegated action code generateDelegatedCode returns
\* has pubkey = proof.delegatedPubkey, whatever canonical message was passed.
C6_Original ==
    (issued # NoCode /\ HasProof(issued))
    => issued.pubkey = issued.delegationProof.delegatedPubkey

\* a well-formed, unexpired proof B replaces proof A of an unexpired issued code
ProofSubstitutedCall ==
    /\ IsValidate("delegation")
    /\ HasProof(issued)
    /\ HasProof(call.arg)
    /\ call.arg = [issued EXCEPT !.delegationProof = call.arg.delegationProof]
    /\ call.arg.delegationProof.delegatedPubkey # issued.delegationProof.delegatedPubkey
    /\ IsOk(validateDelegationProof(call.at, call.arg.delegationProof))
    /\ call.at <= issued.expiresAt + ClockSkew(cfg)

\* C7 (as claimed): replacing proof A of an unexpired delegated code by a
\* well-formed, unexpired proof B with another delegatedPubkey makes
\* validateDelegatedCode fail with INVALID_INPUT on delegatedPubkey, before any
\* signature is examined.
C7_Original ==
    ProofSubstitutedCall =>
        /\ call.strat = Err("INVALID_INPUT", "delegatedPubkey")
        /\ call.nverify = 0

\* the same for the codes whose pubkey is proof A's delegated key, as generate
\* makes them
C7_BoundCodeRejected ==
    (ProofSubstitutedCall /\ issued.pubkey = issued.delegationProof.delegatedPubkey)
    => /\ call.strat = Err("INVALID_INPUT", "delegatedPubkey")
       /\ call.nverify = 0

Predicates ==
    {"verifyWithWallet", "verifyWithDelegation",
     "verifyRevokeWithWallet", "verifyRevokeWithDelegation"}
IsPredicate == call # NoCall /\ call.op \in Predicates

\* C8 (as claimed): each adapter predicate returns true or false on every input
\* record and never throws.
C8_Original == IsPredicate => call.out.kind \in {"true", "false"}

\* the full count of Ed25519 verifications of a predicate
FullCount(op) ==
    IF op \in {"verifyWithWallet", "verifyRevokeWithWallet"} THEN 1 ELSE 2

IsExpiredCode(o) == o.kind = "error" /\ o.code = "EXPIRED_CODE"

\* C10 (as claimed): strategy validation raises EXPIRED_CODE exactly when
\* now > expiresAt + clockSkewMs.
C10_Original ==
    (call # NoCall /\ call.op = "validate")
    => (IsExpiredCode(call.strat) <=> call.at > call.arg.expiresAt + ClockSkew(cfg))

\* the proof passes the checks validateDelegationProof makes before its expiry
\* check, and has expired
ProofExpired(t, p) ==
    /\ p # Undefined
    /\ IsPublicKey(p.walletPubkey)
    /\ IsPublicKey(p.delegatedPubkey)
    /\ IsChainName(p.chain)
    /\ 0 < p.expiresAt
    /\ p.expiresAt < t

\* C10 (amended): validateCode raises EXPIRED_CODE exactly when
\* now > expiresAt + clockSkewMs (clockSkewMs defaulting to 0), and
\* validateDelegatedCode exactly when that holds or the otherwise well-formed
\* proof has expired (proof.expiresAt < now, no skew applied).
C10_ExpiryBoundary ==
    /\ IsValidate("wallet") =>
           (IsExpiredCode(call.strat) <=> call.at > call.arg.expiresAt + ClockSkew(cfg))
    /\ IsValidate("delegation") =>
           (IsExpiredCode(call.strat) <=>
                \/ call.at > call.arg.expiresAt + ClockSkew(cfg)
                \/ ProofExpired(call.at, call.arg.delegationProof))

\* C10 witness: at now = expiresAt + clockSkewMs, with a skew set, a delegated
\* code passes the strategy's validation
C10_Witness ==
    /\ IsValidate("delegation")
    /\ cfg.clockSkewMs > 0
    /\ call.at = call.arg.expiresAt + cfg.clockSkewMs
    /\ IsOk(call.strat)

\* C19 (as claimed): generate returns an action code only after signFn has
\* resolved with a non-empty, well-formed signature; an empty or malformed one
\* makes it fail with INVALID_SIGNATURE.
C19_Original ==
    (IsOp("generate") /\ IsOk(call.out)) => call.sig.kind = "ed25519"

\* C19 (amended): generate returns an action code only after signFn has
\* resolved with a non-empty string that decodes as Base58, whatever its length.
\* When signFn rejects, generate rejects with that same error; when signFn
\* resolves with an empty string generate fails with INVALID_SIGNATURE; when it
\* resolves with a string that is not Base58 generate fails, with
\* INVALID_SIGNATURE unless the delegation proof is itself rejected first.
\* Whenever generate fails the caller receives no action code.
C19_CodeOnlyAfterSignature ==
    [][(call = NoCall /\ call' # NoCall /\ call'.op = "generate") =>
          /\ IsOk(call'.out) =>
                /\ pending # NoCall
                /\ call'.sig.kind \in {"ed25519", "short"}
                /\ issued'.signature = call'.sig
          /\ call'.out.kind = "throw" =>
                /\ pending # NoCall
                /\ call'.out.code \in SignFnErrors
          /\ (pending # NoCall /\ call'.out.kind # "throw" /\ call'.sig.kind = "empty") =>
                call'.out = Err("INVALID_SIGNATURE", "signature")
          /\ (pending # NoCall /\ call'.sig.kind = "notbase58") =>
                /\ call'.out.kind = "error"
                /\ (\/ call'.strategy = "wallet"
                    \/ IsOk(validateDelegationProof(now, call'.arg)))
                   => call'.out = Err("INVALID_SIGNATURE", "signature")
          /\ ~IsOk(call'.out) => issued' = issued]_vars

\* C19 witness: signFn has timed out while the caller held an earlier code, and
\* generate has rejected with that error
C19_Witness ==
    /\ IsOp("generate")
    /\ call.out = Thrown("Timeout")
    /\ issued # NoCode

\* C20: for every action code c generate returns, signFn was invoked exactly
\* once, with the bytes serializeCanonical({pubkey: c.pubkey, windowStart:
\* c.timestamp}); for the delegation strategy c.pubkey is the proof's
\* delegatedPubkey.
C20_SignedOnceOverCanonical ==
    (IsOp("generate") /\ IsOk(call.out)) =>
        /\ Len(signed) = 1
        /\ signed[1] = serializeCanonical([pubkey |-> issued.pubkey,
                                           windowStart |-> issued.timestamp])
        /\ call.strategy = "delegation" => issued.pubkey = call.arg.delegatedPubkey

\* C20 witness: a delegated code is returned after the clock has advanced
\* during the await of signFn
C20_Witness ==
    /\ IsOp("generate")
    /\ IsOk(call.out)
    /\ call.strategy = "delegation"
    /\ call.at > issued.timestamp
    /\ Len(signed) = 1

\* C12: every ActionCode a returned by generateCode has a.timestamp equal to the
\* windowStart of the canonical message, a.expiresAt - a.timestamp = ttlMs, and
\* a.code a string of exactly N decimal digits, N the configured codeLength
\* clamped to [6, 24] (8 when unset).
C12_GeneratedCodeShape ==
    (IsOp("generateCode") /\ IsOk(call.out)) =>
        LET N == IF cfg.codeLength = NoLength THEN 8
                 ELSE IF cfg.codeLength < 6 THEN 6
                 ELSE IF cfg.codeLength > 24 THEN 24
                 ELSE cfg.codeLength
        IN /\ issued.timestamp = call.arg.windowStart
           /\ issued.expiresAt - issued.timestamp = cfg.ttlMs
           /\ Len(issued.code) = N
           /\ \A i \in 1..Len(issued.code) : issued.code[i] \in 0..9

\* C12 witness: a configured length of 30 gives a code of 24 digits, for a
\* message whose windowStart is not the current time
C12_Witness ==
    /\ IsOp("generateCode")
    /\ IsOk(call.out)
    /\ cfg.codeLength = 30
    /\ Len(issued.code) = 24
    /\ call.arg.windowStart # call.at

C18_Original ==
    /\ ((IsOp("generate") \/ IsOp("revoke")) /\ call.chain \notin SUPPORTED_CHAINS)
          => /\ call.out = Err("INVALID_ADAPTER", "chain")
             /\ signed = <<>>
    /\ (IsOp("validate") /\ IsOk(call.strat) /\ call.arg.chain \notin DOMAIN adapters)
          => call.out = Err("INVALID_ADAPTER", "chain")

\* the meta built last was parsed back
BuiltAndParsed ==
    /\ IsOp("parseProtocolMeta")
    /\ txn.fields # Undefined
    /\ call.arg = txn.memo

\* C14 as stated: for every valid ProtocolMetaFields m, also with iss equal to
\* int and with p, parseProtocolMeta(buildProtocolMeta(m)) equals m field for
\* field.
C14_Original ==
    (BuiltAndParsed /\ \A k \in {"id", "int", "iss"} : Trim(txn.fields[k]) = txn.fields[k])
    => (IsOk(call.out) /\ txn.parsed = txn.fields)

\* C14: parseProtocolMeta(buildProtocolMeta(m)) succeeds and has the ver, id,
\* int and p of m, with id and int trimmed; its iss is unset when m.iss is unset
\* or equal to m.int, and the trimmed m.iss otherwise.
C14_RoundTrip ==
    BuiltAndParsed =>
        /\ IsOk(call.out)
        /\ txn.parsed.ver = txn.fields.ver
        /\ txn.parsed.id = Trim(txn.fields.id)
        /\ txn.parsed.int = Trim(txn.fields.int)
        /\ txn.parsed.p = txn.fields.p
        /\ txn.parsed.iss = IF txn.fields.iss \in {Unset, txn.fields.int} THEN Unset
                            ELSE Trim(txn.fields.iss)

\* C14 witness: a meta with a reserved character in int, a distinct iss and p
\* comes back field for field
C14_Witness ==
    /\ BuiltAndParsed
    /\ txn.fields.int = "wallet:solana"
    /\ txn.fields.iss = "issuer:solana"
    /\ txn.fields.p # Undefined
    /\ txn.parsed = txn.fields

\* the keys whose signature slot of tx carries a signature
SlotsFilled(tx) ==
    IF tx.kind = "legacy"
    THEN {tx.signatures[i].publicKey :
            i \in {j \in 1..Len(tx.signatures) : tx.signatures[j].signature # ZeroSignature}}
    ELSE {tx.message.staticAccountKeys[i] :
            i \in {j \in 1..Len(tx.signatures) : tx.signatures[j] # ZeroSignature}}

IssPresent(meta) == meta.iss # Unset

\* C13 as stated, for metas whose int and iss are public keys, the signers of a
\* transaction being the keys that have signed it: the call succeeds iff int
\* is among the signers and, when iss is present, iss too; it raises
\* TRANSACTION_NOT_SIGNED_BY_INTENDED_OWNER when int is no signer and
\* TRANSACTION_NOT_SIGNED_BY_ISSUER when int is one but a present iss is not.
C13_Original ==
    (IsOp("verifyTransactionSignedByIntentOwner")
        /\ parseMeta(getMemoInstructions(call.tx)) # Undefined
        /\ IsPublicKey(parseMeta(getMemoInstructions(call.tx)).int)
        /\ parseMeta(getMemoInstructions(call.tx)).iss \in Keys \cup {Unset})
    => LET meta == parseMeta(getMemoInstructions(call.tx))
           intSigned == meta.int \in SlotsFilled(call.tx)
           issSigned == IssPresent(meta) => meta.iss \in SlotsFilled(call.tx)
       IN /\ IsOk(call.out) <=> (intSigned /\ issSigned)
          /\ ~intSigned => call.out = Err("TRANSACTION_NOT_SIGNED_BY_INTENDED_OWNER", "")
          /\ (intSigned /\ ~issSigned) => call.out = Err("TRANSACTION_NOT_SIGNED_BY_ISSUER", "")

\* attachProtocolMeta has returned a transaction
Attached == IsOp("attachProtocolMeta") /\ IsOk(call.out)

\* the number of memos of q that parse as protocol meta
RECURSIVE ParsableCount(_)
ParsableCount(q) ==
    IF q = <<>> THEN 0
    ELSE (IF parseProtocolMetaThrows(Head(q)) THEN 0 ELSE 1) + ParsableCount(Tail(q))

\* C15: attachProtocolMeta refuses with INVALID_TRANSACTION_FORMAT whenever the
\* input carries a parsable protocol meta memo; so attaching to the output of
\* a successful attachProtocolMeta fails whatever the meta and the connection,
\* and a transaction carries at most one protocol meta, which getProtocolMeta
\* returns as buildProtocolMeta(meta).
C15_AttachOnce ==
    /\ (IsOp("attachProtocolMeta")
          /\ getProtocolMeta(getMemoInstructions(call.tx)) # Undefined)
       => call.out = Err("INVALID_TRANSACTION_FORMAT", "meta")
    /\ Attached =>
          /\ getProtocolMeta(getMemoInstructions(txn)) = buildProtocolMeta(call.arg).value
          /\ \A meta \in TxMetas, connection \in Connections :
                attachProtocolMeta(txn, meta, connection).out
                    = Err("INVALID_TRANSACTION_FORMAT", "meta")
    /\ ParsableCount(getMemoInstructions(txn)) <= 1

\* C15 witness: an attach refused on the transaction an earlier attach returned
C15_Witness ==
    /\ IsOp("attachProtocolMeta")
    /\ call.out = Err("INVALID_TRANSACTION_FORMAT", "meta")
    /\ call.tx.kind = "v0"
    /\ parseMeta(getMemoInstructions(call.tx)).int = "D1"
    /\ ParsableCount(getMemoInstructions(txn)) = 1

\* C16 as stated: after attachProtocolMeta has rewritten a versioned
\* transaction, the signatures returned are all-zero entries, as many as the
\* rewritten message requires; no signature of the input survives.
C16_Original ==
    (Attached /\ call.tx.kind = "v0") =>
        /\ Len(txn.signatures) = txn.message.header.numRequiredSignatures
        /\ \A i \in 1..Len(txn.signatures) : txn.signatures[i] = ZeroSignature

\* the instructions of the versioned message msg refer to lookup accounts
Recompiled(msg) == msg.addressTableLookups # <<>> /\ ReferencesLookupAccounts(msg)

\* instruction n of messages old and new has the same program, accounts and
\* data, the indexes resolved to addresses
SameResolved(old, new, n) ==
    LET a == old.compiledInstructions[n]
        b == new.compiledInstructions[n]
    IN /\ a.data = b.data
       /\ AccountKeys(old)[a.programIdIndex + 1] = AccountKeys(new)[b.programIdIndex + 1]
       /\ Len(a.accountKeyIndexes) = Len(b.accountKeyIndexes)
       /\ \A j \in 1..Len(a.accountKeyIndexes) :
             AccountKeys(old)[a.accountKeyIndexes[j] + 1]
                 = AccountKeys(new)[b.accountKeyIndexes[j] + 1]

\* the memo instruction is the last of new, has no accounts and refers to the
\* memo program by its index among the static keys
MemoIsLast(old, new, memo) ==
    LET last == new.compiledInstructions[Len(new.compiledInstructions)]
    IN /\ Len(new.compiledInstructions) = Len(old.compiledInstructions) + 1
       /\ last.data = memo
       /\ last.accountKeyIndexes = <<>>
       /\ StaticKey(new, last.programIdIndex) = MEMO_PROGRAM_ID

\* the instructions and static keys of old keep their indexes in new, the memo
\* program being appended only if absent
IndexesKept(old, new) ==
    /\ \A n \in 1..Len(old.compiledInstructions) :
          /\ new.compiledInstructions[n].programIdIndex
                = old.compiledInstructions[n].programIdIndex
          /\ new.compiledInstructions[n].accountKeyIndexes
                = old.compiledInstructions[n].accountKeyIndexes
    /\ new.staticAccountKeys =
          IF Has(old.staticAccountKeys, MEMO_PROGRAM_ID) THEN old.staticAccountKeys
          ELSE Append(old.staticAccountKeys, MEMO_PROGRAM_ID)

RevokeChecked(op) ==
    /\ IsOp(op)
    /\ revoked # NoCode
    /\ call.sig = revoked.revokeSignature
    /\ call.arg = ActionCodeOf(revoked)
    /\ revoked.revokeSignature.kind = "ed25519"
    /\ revoked.revokeSignature.signer = revoked.pubkey

\* a revoke predicate is given the revoke signature held and a record with
\* another code, pubkey or window start than the one it was made of
RevokeMisused ==
    /\ IsOp("verifyRevokeWithWallet") \/ IsOp("verifyRevokeWithDelegation")
    /\ revoked # NoCode
    /\ call.sig = revoked.revokeSignature
    /\ \/ call.arg.code # revoked.code
       \/ call.arg.pubkey # revoked.pubkey
       \/ call.arg.timestamp # revoked.timestamp

\* C21 as stated: for every code c generate returns and the record r revoke
\* returns for it, signFn signing with the key of c.pubkey,
\* verifyRevokeWithWallet(c, r.revokeSignature) is true (wallet) and
\* verifyRevokeWithDelegation(c, r.revokeSignature) is true (delegation, the
\* proof unexpired); a revoke signature made for another code, pubkey or
\* window start is not accepted.
C21_Original ==
    /\ (RevokeChecked("verifyRevokeWithWallet") /\ ~HasProof(call.arg))
          => call.out.kind = "true"
    /\ (RevokeChecked("verifyRevokeWithDelegation") /\ HasProof(call.arg)
          /\ call.at < call.arg.delegationProof.expiresAt)
          => call.out.kind = "true"
    /\ RevokeMisused => call.out.kind = "false"

\* the proof names the adapter's chain and carries the owner's signature
ProofVerifiable(p) ==
    /\ p.chain = ADAPTER_CHAIN_NAME
    /\ p.signature = Ed(p.walletPubkey, serializeDelegationProof(p))

\* C21: the same, the delegation half for the codes whose proof names the
\* adapter's chain, carries the owner's signature and has expiresAt >= now;
\* with any other proof verifyRevokeWithDelegation is false.
C21_RevokeVerifies ==
    /\ (RevokeChecked("verifyRevokeWithWallet") /\ ~HasProof(call.arg))
          => call.out.kind = "true"
    /\ (RevokeChecked("verifyRevokeWithDelegation") /\ HasProof(call.arg))
          => (call.out.kind = "true" <=>
                 /\ ProofVerifiable(call.arg.delegationProof)
                 /\ call.at <= call.arg.delegationProof.expiresAt)
    /\ (RevokeChecked("verifyRevokeWithDelegation") /\ ~HasProof(call.arg))
          => call.out.kind = "false"
    /\ RevokeMisused => call.out.kind = "false"

\* C21 witness: a delegated code revoked by its delegated signer is verified at
\* the time its proof expires, after the code itself has expired
C21_Witness ==
    /\ RevokeChecked("verifyRevokeWithDelegation")
    /\ HasProof(call.arg)
    /\ call.at = call.arg.delegationProof.expiresAt
    /\ call.at > call.arg.expiresAt
    /\ call.out.kind = "true"

\* C21 witness of the refusal: the signature made for the code revoked is
\* refused for the same code with another first digit
C21_WitnessRefused ==
    /\ RevokeMisused
    /\ call.arg = [ActionCodeOf(revoked) EXCEPT !.code = call.arg.code]
    /\ ~HasProof(call.arg)
    /\ revoked.revokeSignature.signer = revoked.pubkey
    /\ call.nverify = 1
    /\ call.out.kind = "false"

\* a step of revoke: up to its await of signFn, or from there to its end
RevokeStep ==
    \/ pending = NoCall /\ pending' # NoCall /\ pending'.op = "revoke"
    \/ call = NoCall /\ call' # NoCall /\ call'.op = "revoke"

\* C22: revoke stores nothing in the protocol: its steps leave the
\* configuration, the adapters and the code held as they are, the outcome of
\* validate on the code held is the same after the step as before it, and the
\* record returned has the fields of the input action code, unchanged, and the
\* revokeSignature signFn gave.
C22_RevokeStoresNothing ==
    [][RevokeStep =>
          /\ <<cfg, adapters, issued, now>>' = <<cfg, adapters, issued, now>>
          /\ \A strategy \in {"wallet", "delegation"} :
                validate(cfg, now, strategy, issued)' = validate(cfg, now, strategy, issued)
          /\ (call' # NoCall /\ IsOk(call'.out)) =>
                /\ ActionCodeOf(revoked') = call'.arg
                /\ revoked'.revokeSignature = call'.sig
          /\ (call' # NoCall /\ ~IsOk(call'.out)) => revoked' = revoked]_vars

\* C22 witness: a code is revoked after the clock has advanced, the caller
\* holds the record, and the code validates still
C22_Witness ==
    /\ IsOp("revoke")
    /\ IsOk(call.out)
    /\ call.arg = issued
    /\ revoked = RevokeRecord(issued, call.sig)
    /\ IsOk(validate(cfg, now, call.strategy, issued).out)
    /\ now > issued.timestamp

Serializers ==
    {"serializeCanonical", "serializeCanonicalRevoke", "serializeDelegationProof"}
IsSerializer == call # NoCall /\ call.op \in Serializers

\* the string fields of a serializer's input
StringFields(op) ==
    CASE op = "serializeCanonical" -> {"pubkey"}
      [] op = "serializeCanonicalRevoke" -> {"pubkey", "codeHash"}
      [] op = "serializeDelegationProof" -> {"walletPubkey", "delegatedPubkey", "chain"}

\* v is not a string, is empty, is longer than 100 characters, or has a double
\* quote, a backslash or a control character
RefusedString(v) ==
    \/ v \in NotStrings
    \/ v = ""
    \/ Len(v) > 100
    \/ v \in UnsafeStrings

C23_WitnessAccepted ==
    /\ IsOp("serializeCanonical")
    /\ Len(call.arg.pubkey) = 100
    /\ IsOk(call.out)
    /\ call.tx # ""

\* a delegation proof is used: given to generateDelegatedCode, or embedded in
\* a code given to validateDelegatedCode that has not itself expired
ProofUsed ==
    \/ IsOp("generateDelegatedCode")
    \/ IsValidate("delegation") /\ ~Expired(cfg, call.at, call.arg)
UsedProof == IF IsOp("generateDelegatedCode") THEN call.arg ELSE call.arg.delegationProof
UseOutcome == IF IsOp("generateDelegatedCode") THEN call.out ELSE call.strat

\* the proof has valid pubkeys, a chain name, a signature and a positive expiresAt
ProofWellFormed(p) ==
    /\ p # Undefined
    /\ IsPublicKey(p.walletPubkey)
    /\ IsPublicKey(p.delegatedPubkey)
    /\ IsChainName(p.chain)
    /\ p.expiresAt > 0
    /\ ~Falsy(p.signature)

\* C24 as stated, for proofs that are well formed but for their expiry: a
\* proof is accepted by generateDelegatedCode and validateDelegatedCode only if
\* now < expiresAt <= now + 365 days; one with expiresAt <= now is rejected with
\* EXPIRED_CODE and one with expiresAt > now + 365 days with INVALID_INPUT.
C24_Original ==
    (ProofUsed /\ ProofWellFormed(UsedProof)) =>
        /\ IsOk(UseOutcome) =>
              /\ call.at < UsedProof.expiresAt
              /\ UsedProof.expiresAt <= call.at + MaxFuture
        /\ UsedProof.expiresAt <= call.at => UseOutcome = Err("EXPIRED_CODE", "expiresAt")
        /\ UsedProof.expiresAt > call.at + MaxFuture
              => UseOutcome = Err("INVALID_INPUT", "expiresAt")

\* C24: a proof is accepted only if now <= expiresAt <= now + 365 days; an
\* otherwise well-formed proof with 0 < expiresAt < now is rejected with
\* EXPIRED_CODE, one with expiresAt > now + 365 days or expiresAt <= 0 with
\* INVALID_INPUT, and one with expiresAt = now is not rejected for its expiry.
C24_ProofWindow ==
    ProofUsed =>
        /\ IsOk(UseOutcome) =>
              /\ call.at <= UsedProof.expiresAt
              /\ UsedProof.expiresAt <= call.at + MaxFuture
        /\ ProofWellFormed(UsedProof) =>
              /\ UsedProof.expiresAt < call.at
                    => UseOutcome = Err("EXPIRED_CODE", "expiresAt")
              /\ UsedProof.expiresAt > call.at + MaxFuture
                    => UseOutcome = Err("INVALID_INPUT", "expiresAt")
              /\ UsedProof.expiresAt = call.at
                    => UseOutcome \notin {Err("EXPIRED_CODE", "expiresAt"),
                                          Err("INVALID_INPUT", "expiresAt")}
                       \/ (IsValidate("delegation") /\ Outlives(call.arg))
        /\ (UsedProof # Undefined /\ IsPublicKey(UsedProof.walletPubkey)
               /\ IsPublicKey(UsedProof.delegatedPubkey) /\ IsChainName(UsedProof.chain)
               /\ UsedProof.expiresAt <= 0)
              => UseOutcome = Err("INVALID_INPUT", "expiresAt")

\* C24 witness: generateDelegatedCode accepts a proof at the very time it
\* expires
C24_Witness ==
    /\ IsOp("generateDelegatedCode")
    /\ call.arg.expiresAt = call.at
    /\ IsOk(call.out)

----------------------------------------------------------------------------
(* Generated codes whose own fields were changed before they are validated *)

\* the proofs handed to generate: W1 delegating to D1, signed by W1
TamperProofs ==
    {p \in ProofInputs : p.walletPubkey = "W1" /\ p.delegatedPubkey = "D1"}

\* a code whose first character is a letter
WithLetter(code) == [code EXCEPT ![1] = 10]

\* the record with its code replaced: other digits of the same length, a digit
\* less, a digit more, a letter among the digits, no digits at all
DigitTampers(a) ==
    {[a EXCEPT !.code = d] :
        d \in {OtherDigits(a.code), Tail(a.code), a.code \o <<0>>, WithLetter(a.code), <<>>}}

\* the record with one structural field missing
MissingFields(a) ==
    {[a EXCEPT !.pubkey = ""], [a EXCEPT !.signature = EmptySig],
     [a EXCEPT !.chain = ""], [a EXCEPT !.timestamp = 0]}

\* the record with another expiresAt
ExpiryTampers(a) == {[a EXCEPT !.expiresAt = e] : e \in 0..(MaxTime + 2)}

DerivedTampers(a) == {a} \cup DigitTampers(a) \cup MissingFields(a) \cup ExpiryTampers(a)

NextTamper ==
    \/ Tick
    \/ Return
    \/ /\ pending = NoCall /\ call = NoCall
       /\ GenerateBegin("wallet", "W1", "solana", TRUE)
    \/ /\ pending = NoCall /\ call = NoCall
       /\ \E p \in TamperProofs : GenerateBegin("delegation", p, "solana", TRUE)
    \/ /\ pending # NoCall /\ call = NoCall
       /\ \E x \in SignOutputs(pending.pubkey, pending.canonical) : GenerateResume(x)
    \/ \E error \in SignFnErrors : SignFnReject(error)
    \/ /\ Idle
       /\ \E strategy \in {"wallet", "delegation"}, a \in DerivedTampers(issued) :
              Validate(strategy, a)

SpecTamper == Init /\ [][NextTamper]_vars

\* a delegated code that has not expired is given to validate("delegation")
DelegatedValidated ==
    /\ IsValidate("delegation")
    /\ call.arg.delegationProof # Undefined
    /\ ~Expired(cfg, call.at, call.arg)

\* a structural field of the record is missing
FieldMissing(a) ==
    a.pubkey = "" \/ Falsy(a.signature) \/ a.chain = "" \/ a.timestamp = 0

\* the record passes validateDelegatedCode once its code field is the issued one
OtherwiseValid(a) ==
    IsOk(validateDelegatedCode(cfg, call.at, [a EXCEPT !.code = issued.code]).out)

\* C25 as stated: validateDelegatedCode rejects a delegated code whose code
\* field does not match ^[0-9]{N}$ with INVALID_CODE_FORMAT (checked on records
\* that are valid but for their code field), and one with a missing structural
\* field with MISSING_REQUIRED_FIELD (checked on records whose proof is valid).
C25_Original ==
    DelegatedValidated =>
        IF ~IsCodeFormat(call.arg.code, CodeLength(cfg))
        THEN OtherwiseValid(call.arg) => call.strat = Err("INVALID_CODE_FORMAT", "code")
        ELSE (/\ FieldMissing(call.arg)
              /\ IsOk(validateDelegationProof(call.at, call.arg.delegationProof))
              /\ ~Outlives(call.arg))
                 => call.strat.code = "MISSING_REQUIRED_FIELD"

\* the record validated is the one generation returned with only its derived
\* fields (code, expiresAt) possibly changed
DerivedOnlyChanged ==
    /\ IsOp("validate")
    /\ call.arg.pubkey = issued.pubkey
    /\ call.arg.timestamp = issued.timestamp
    /\ call.arg.signature = issued.signature
    /\ call.arg.chain = issued.chain
    /\ call.arg.delegationProof = issued.delegationProof

\* C27 as stated: a generated record whose expiresAt was changed to a value
\* other than timestamp + ttlMs, or whose code was replaced by other digits of
\* the same length, with pubkey, timestamp and signature untouched, is rejected
\* by validate under both strategies.
C27_Original ==
    (/\ DerivedOnlyChanged
     /\ \/ call.arg.expiresAt # call.arg.timestamp + cfg.ttlMs
        \/ /\ call.arg.code # issued.code
           /\ IsCodeFormat(call.arg.code, CodeLength(cfg)))
        => ~IsOk(call.out)

----------------------------------------------------------------------------
(* Two protocol objects in one process: adapters are registered on either
   while a generate or revoke of the first awaits signFn *)

\* registerAdapter(chain, adapter) on this protocol object, called while its
\* generate or revoke awaits signFn
RegisterWhileSuspended(chain, adapter) ==
    /\ pending # NoCall
    /\ RegisterAdapter(chain, adapter)

\* registerAdapter(chain, adapter) on the other protocol object
RegisterPeer(chain, adapter) ==
    /\ call = NoCall
    /\ peer' = [c \in DOMAIN peer \cup {chain} |-> IF c = chain THEN adapter ELSE peer[c]]
    /\ UNCHANGED <<now, cfg, pending, issued, call, adapters, signed, rejected, txn, revoked>>

\* the value a generate or revoke that succeeded has returned
Returned == IF call.op = "generate" THEN issued ELSE revoked

\* the caller keeps the outcome of one generate or revoke that ran on a
\* protocol object no adapter was ever registered on
ReturnKept ==
    /\ call # NoCall
    /\ rejected = NoCall
    /\ call.op \in {"generate", "revoke"}
    /\ adapters = DefaultAdapters
    /\ rejected' = [kind |-> "kept", call |-> call,
                    value |-> IF IsOk(call.out) THEN Returned ELSE Undefined]
    /\ call' = NoCall
    /\ signed' = <<>>
    /\ UNCHANGED <<now, cfg, pending, issued, adapters, txn, revoked, peer>>

RegistryChains == {"solana", "other"}

\* the proofs handed to generate: W1 delegating to D1 until the end of time
RegistryProofs ==
    {p \in ProofInputs :
        p.walletPubkey = "W1" /\ p.delegatedPubkey = "D1" /\ p.expiresAt = MaxTime}

\* the records handed to validate: the code held, also under another chain name
RegistryCodes == {[issued EXCEPT !.chain = ch] : ch \in {issued.chain, "other"}}

NextRegistry ==
    \/ Tick
    \/ Return
    \/ ReturnKept
    \/ \E chain \in RegistryChains : RegisterWhileSuspended(chain, "StubAdapter")
    \/ RegisterPeer("other", "StubAdapter")
    \/ /\ pending = NoCall /\ call = NoCall
       /\ \E chain \in RegistryChains : GenerateBegin("wallet", "W1", chain, TRUE)
    \/ /\ pending = NoCall /\ call = NoCall
       /\ \E p \in RegistryProofs : GenerateBegin("delegation", p, "solana", TRUE)
    \/ /\ pending # NoCall /\ call = NoCall
       /\ GenerateResume(Ed(pending.pubkey, pending.canonical))
    \/ /\ Idle
       /\ RevokeBegin(IF issued.delegationProof = Undefined THEN "wallet" ELSE "delegation",
                      issued, "solana", TRUE)
    \/ /\ pending # NoCall /\ call = NoCall
       /\ RevokeResume(Ed(pending.pubkey, pending.canonical), TRUE)
    \/ /\ Idle
       /\ \E strategy \in {"wallet", "delegation"}, a \in RegistryCodes :
              Validate(strategy, a)

InitRegistry == Init /\ cfg.ttlMs = 1 /\ cfg.clockSkewMs = NoSkew

SpecRegistry == InitRegistry /\ [][NextRegistry]_vars

\* a generate or revoke has returned that was called with the arguments of the
\* kept call, at the same time and with the same answer of signFn
SameCallAsKept ==
    /\ call # NoCall
    /\ rejected # NoCall
    /\ call.op = rejected.call.op
    /\ call.strategy = rejected.call.strategy
    /\ call.arg = rejected.call.arg
    /\ call.chain = rejected.call.chain
    /\ call.sig = rejected.call.sig
    /\ call.at = rejected.call.at

\* the adapter's predicate for the strategy holds of the record
PredicateTrue(strategy, t, a) ==
    IF strategy = "wallet" THEN verifyWithWallet(a).out.kind = "true"
    ELSE verifyWithDelegation(t, a).out.kind = "true"

\* C26: a generate or revoke during whose await adapters were registered
\* returns what the same call returned on a registry never written to; and a
\* validate whose strategy validation passes is decided by the adapter its own
\* protocol object has for actionCode.chain at the time of the call, whatever
\* is registered on another protocol object.
C26_RegistryConsistent ==
    /\ SameCallAsKept =>
          /\ call.out = rejected.call.out
          /\ IsOk(call.out) => Returned = rejected.value
    /\ (IsOp("validate") /\ IsOk(call.strat)) =>
          LET chain == call.arg.chain
          IN IF chain \in DOMAIN adapters
             THEN IF adapters[chain] = "StubAdapter" THEN IsOk(call.out)
                  ELSE IsOk(call.out) <=> PredicateTrue(call.strategy, call.at, call.arg)
             ELSE chain \notin ObjectPrototypeKeys
                     => call.out = Err("INVALID_ADAPTER", "chain")

\* C26 witness: a generate returns a code after adapters were registered during
\* an await, and the same call had returned the same code before any
\* registration; the other protocol object has an adapter this one has not
C26_Witness ==
    /\ SameCallAsKept
    /\ IsOp("generate")
    /\ IsOk(call.out)
    /\ adapters # DefaultAdapters
    /\ "other" \in DOMAIN peer
    /\ "other" \notin DOMAIN adapters

\* C26 witness of the validate half: a code is refused for want of an adapter
\* that the other protocol object has
C26_WitnessPeer ==
    /\ IsOp("validate")
    /\ IsOk(call.strat)
    /\ call.arg.chain \in DOMAIN peer
    /\ call.arg.chain \notin DOMAIN adapters
    /\ call.out = Err("INVALID_ADAPTER", "chain")

\* C28 as stated: verifyTransactionSignedByIntentOwner succeeds only if the
\* slot of the intent-owner key carries a signature that is not all zero, for
\* legacy and versioned transactions alike; so it fails on what
\* attachProtocolMeta returned until the intent owner has signed.
C28_Original ==
    (IsOp("verifyTransactionSignedByIntentOwner") /\ IsOk(call.out))
        => parseMeta(getMemoInstructions(call.tx)).int \in SlotsFilled(call.tx)

\* attachProtocolMeta has returned a versioned transaction on the path that
\* resolves no lookup table
AttachedSimply ==
    /\ Attached
    /\ call.tx.kind = "v0"
    /\ ~(call.tx.message.addressTableLookups # <<>>
          /\ ReferencesLookupAccounts(call.tx.message))

\* the signer and writable flags the header gives the account at index i
RoleOf(msg, i) == [signer |-> IsSignerIndex(msg, i), writable |-> IsWritableIndex(msg, i)]

\* C29 as stated: on the path without lookup-table resolution every static
\* account of the input keeps its signer / writable / read-only role in the
\* rewritten message, and an appended memo program key is read-only and no
\* signer.
C29_Original ==
    AttachedSimply =>
        LET old == call.tx.message
            new == txn.message
        IN /\ \A i \in 0..(Len(old.staticAccountKeys) - 1) :
                 /\ new.staticAccountKeys[i + 1] = old.staticAccountKeys[i + 1]
                 /\ RoleOf(new, i) = RoleOf(old, i)
           /\ ~Has(old.staticAccountKeys, MEMO_PROGRAM_ID)
                 => RoleOf(new, FindIndex(new.staticAccountKeys, MEMO_PROGRAM_ID))
                        = [signer |-> FALSE, writable |-> FALSE]

\* a serializer has returned the very bytes the caller kept from an earlier call
SameBytesAsKept ==
    /\ IsSerializer
    /\ IsOk(call.out)
    /\ txn # NoBytes
    /\ call.tx = txn.bytes

\* C30 as stated: two calls that the guards accept return the same bytes only
\* if they are calls of the same serializer with equal field values.
C30_Original ==
    SameBytesAsKept =>
        /\ call.op = txn.op
        /\ call.arg = txn.parts

====
